---- MODULE Spec2Model ----
(***************************************************************************)
(* Hazard-composition engine of the vessel-drift analysis package.         *)
(*                                                                         *)
(* A drift run (DriftResult) and a spill run (SpillResult) are modelled as *)
(* the sequence of method calls their constructors make.  Real numbers are *)
(* exact rationals <<numerator, denominator>> in lowest terms; strings     *)
(* that the code slices, splits or truncates are sequences of characters.  *)
(* Sequence positions are 1-based where the arrays of the code are         *)
(* 0-based; status codes keep the 0-based value the code computes.         *)
(***************************************************************************)
EXTENDS Integers, Sequences, FiniteSets, TLC

(***************************************************************************)
(* Bounds of the model.                                                    *)
(***************************************************************************)
\* number of particles (trajectories) in a result file
NParticles == 2
\* number of recorded time steps in a result file
NTimes == 2

Particles == 1..NParticles
Times == 1..NTimes

(***************************************************************************)
(* Exact rational arithmetic standing for the float arithmetic of numpy.   *)
(***************************************************************************)
RECURSIVE GCD(_, _)
GCD(a, b) == IF b = 0 THEN a ELSE GCD(b, a % b)

Abs(n) == IF n < 0 THEN -n ELSE n

\* n / d for d > 0, in lowest terms
Rat(n, d) ==
  LET g == GCD(Abs(n), d) IN IF g = 0 THEN <<0, 1>> ELSE <<n \div g, d \div g>>

Zero == Rat(0, 1)
One == Rat(1, 1)

RatMul(a, b) == Rat(a[1] * b[1], a[2] * b[2])
RatAdd(a, b) == Rat(a[1] * b[2] + b[1] * a[2], a[2] * b[2])
\* a / b for b > 0
RatDiv(a, b) == Rat(a[1] * b[2], a[2] * b[1])
RatLT(a, b) == a[1] * b[2] < b[1] * a[2]

RECURSIVE RatSum(_, _)
\* sum of f[k] over the finite set S
RatSum(f, S) ==
  IF S = {} THEN Zero
  ELSE LET k == CHOOSE x \in S : TRUE IN RatAdd(f[k], RatSum(f, S \ {k}))

RECURSIVE IntSum(_, _)
IntSum(f, S) ==
  IF S = {} THEN 0
  ELSE LET k == CHOOSE x \in S : TRUE IN f[k] + IntSum(f, S \ {k})

(***************************************************************************)
(* utils.py                                                                *)
(***************************************************************************)
\* np.mod follows the sign of the divisor, as % does for a positive divisor
lon360_to_lon180(lon) == ((lon - 180) % 360) - 180

\* the value a Python function returns when it falls off its end; it is
\* represented by an integer that is no status code
None == -1

\* str.split(): the words of the attribute, the blanks between them dropped
split(attr) == SelectSeq(attr, LAMBDA w : w # " ")

RECURSIVE flag_loop(_, _)
\* the for loop over enumerate(flag_meanings), from 1-based position k on
flag_loop(flag_meanings, k) ==
  IF k > Len(flag_meanings) THEN None
  ELSE IF flag_meanings[k] = "stranded" THEN k - 1
  ELSE flag_loop(flag_meanings, k + 1)

\* the code of "stranded" in the usual list ("active stranded"), whatever the
\* file says
stranded_flag_of_usual_list(attr) == 1

get_stranded_flag_from_status(attr) == flag_loop(split(attr), 1)

(***************************************************************************)
(* Strings of the dtype 'U15' arrays, as sequences of characters.          *)
(***************************************************************************)
\* dtype='U15': at most 15 characters are stored
U15 == 15

\* numpy keeps the first U15 characters of a string stored in a 'U15' array
AsU15(s) == IF Len(s) > U15 THEN SubSeq(s, 1, U15) ELSE s

\* the empty string
Empty == << >>

\* str(None), what numpy stores when None is assigned into a 'U15' array
NoneStr == <<"N", "o", "n", "e">>

RECURSIVE FirstDash(_, _)
\* position of the first '-' of s at or after k, Len(s) + 1 when there is none
FirstDash(s, k) ==
  IF k > Len(s) THEN k ELSE IF s[k] = "-" THEN k ELSE FirstDash(s, k + 1)

\* id.split('-')[0]
RegionOf(s) == SubSeq(s, 1, FirstDash(s, 1) - 1)

(***************************************************************************)
(* Point catalogs and the nearest-neighbour query (scipy cKDTree).         *)
(***************************************************************************)
\* ESI.locs: one row per vertex, with the id of its segment
esi_locs ==
  << [lon |-> -170, lat |-> 55, esi_id |-> <<"w", "-", "1">>],
     [lon |-> -169, lat |-> 55, esi_id |-> <<"w", "-", "1">>],
     [lon |-> -160, lat |-> 57, esi_id |-> <<"s", "e", "-", "2">>] >>

\* ShoreZone.locs: one row per vertex, with its beach class
shorezone_locs ==
  << [lon |-> -170, lat |-> 55, bc_class |-> 20],
     [lon |-> -160, lat |-> 57, bc_class |-> 21] >>

\* AIS.vessel_counts: the raster cells with a non-zero vessel count
vessel_counts ==
  << [lon |-> -170, lat |-> 55, counts |-> 14],
     [lon |-> -160, lat |-> 57, counts |-> 255] >>

Dist2(c, q) ==
  (c.lon - q[1]) * (c.lon - q[1]) + (c.lat - q[2]) * (c.lat - q[2])

\* tree.query(loc): index of the catalog point closest to loc in degree
\* space.  The catalogs and query points of the model have no ties.
query(locs, q) ==
  CHOOSE i \in 1..Len(locs) :
    \A j \in 1..Len(locs) :
      Dist2(locs[i], q) < Dist2(locs[j], q)
        \/ (Dist2(locs[i], q) = Dist2(locs[j], q) /\ i <= j)

(***************************************************************************)
(* Result files.                                                           *)
(***************************************************************************)
\* status.flag_meanings of a result file, blanks included
FlagAttrs ==
  { <<"active", " ", "stranded">>,
    <<"stranded", " ", "active">>,
    <<"active", " ", "missing_data">> }

\* status codes of the samples of a result file
StatusCodes == {0, 1}

\* ds.lon / ds.lat of particle p at time t, lon in [0, 360): the particles
\* drift between a point off segment w-1 and a point off segment e-2
position(p, t) ==
  IF (p + t) % 2 = 0 THEN [lon |-> 192, lat |-> 55]
  ELSE [lon |-> 200, lat |-> 57]

\* the result files of the model: every status matrix over the positions
ResultFiles ==
  { [p \in Particles |->
       [t \in Times |->
          [status |-> st[p][t],
           lon |-> position(p, t).lon,
           lat |-> position(p, t).lat]]] :
      st \in [Particles -> [Times -> StatusCodes]] }

\* (year, month) of the AIS snapshot of the run
AISDates == { <<2019, 1>>, <<2020, 2>> }

\* prob_drift, the default 0.0006 and certainty
ProbDrifts == { Rat(6, 10000), One }

\* contents np.empty(nvessels, dtype='U15') may return: the array is not
\* initialised, so it reads as empty strings when the memory is fresh and
\* zeroed, and as the ids of an earlier array when the memory is reused
UninitIds ==
  { [p \in Particles |-> Empty], [p \in Particles |-> <<"w", "-", "1">>] }

VARIABLES
  pc,               \* position in the constructor of the run
  raised,           \* the exception that ended the run, "" when none
  flag_attr,        \* ds.status.flag_meanings
  traj,             \* ds.status / ds.lon / ds.lat, per particle and time
  ais_date,         \* ais.date as <<year, month>>
  prob_drift,       \* prob_drift argument of DriftResult
  pt,               \* result of _calc_pt_per_particle
  esi_per_particle, \* esi ids read by _calc_pb_per_particle (line 332)
  esi_ids,          \* esi ids read by _get_stranded_per_esi_segment (line 289)
  stranded_by_esi,  \* nstranded per segment id
  pb_per_segment,   \* pb_s per segment id
  pb,               \* result of _calc_pb_per_particle
  hazard_cols,      \* stranding_hazard, esi_id and region per particle
  drift_data,       \* DriftResult.data, one row per particle
  mass_oil,         \* ds.mass_oil of a spill file, per particle and time
  oil_mass_per_particle, \* result of _get_oil_mass_per_particle
  spill_esi_ids,    \* esi ids read by _calc_concentration_index
  spill_data        \* SpillResult.data, one row per hit segment

drift_vars ==
  << ais_date, prob_drift, pt, esi_per_particle, esi_ids, stranded_by_esi,
     pb_per_segment, pb, hazard_cols, drift_data >>

spill_vars == << mass_oil, oil_mass_per_particle, spill_esi_ids, spill_data >>


(***************************************************************************)
(* Helpers shared by DriftResult and SpillResult.                          *)
(***************************************************************************)
RECURSIVE argwhere(_, _, _)
\* np.argwhere(ds.status.values == stranded_flag): the <<particle, time>>
\* pairs that hold the flag, in row-major order, from linear index k on
argwhere(tr, flag, k) ==
  IF k >= NParticles * NTimes THEN << >>
  ELSE LET p == (k \div NTimes) + 1
           t == (k % NTimes) + 1
       IN (IF tr[p][t].status = flag THEN << <<p, t>> >> ELSE << >>)
            \o argwhere(tr, flag, k + 1)

RECURSIVE Scatter(_, _, _, _)
\* arr[vessel_ix] = vals: the elements are stored one after another, so
\* with a repeated index the value stored last remains
Scatter(arr, ixs, vals, k) ==
  IF k > Len(ixs) THEN arr
  ELSE Scatter([arr EXCEPT ![ixs[k][1]] = vals[k]], ixs, vals, k + 1)

\* the stranding locations locs, longitude converted (convert_lon=True)
stranding_locs(tr, ixs) ==
  [k \in 1..Len(ixs) |->
     << lon360_to_lon180(tr[ixs[k][1]][ixs[k][2]].lon),
        tr[ixs[k][1]][ixs[k][2]].lat >>]

\* _get_esi_per_particle; uninit is the content of the np.empty array
get_esi_per_particle(tr, attr, uninit) ==
  LET stranded_flag == get_stranded_flag_from_status(attr)
      stranded_ix == argwhere(tr, stranded_flag, 0)
      locs == stranding_locs(tr, stranded_ix)
      ids == [k \in 1..Len(stranded_ix) |->
                AsU15(esi_locs[query(esi_locs, locs[k])].esi_id)]
  IN Scatter(uninit, stranded_ix, ids, 1)

(***************************************************************************)
(* shorezone.py                                                            *)
(***************************************************************************)
\* highest beach class of a rocky coast
RockyMax == 20

\* get_breach_prob with class 20 taken for a non-rocky coast
get_breach_prob_below(q) ==
  LET bc_class == shorezone_locs[query(shorezone_locs, q)].bc_class
  IN IF bc_class < RockyMax THEN Rat(7, 10) ELSE Rat(44, 100)

\* get_breach_prob for one query point
get_breach_prob(q) ==
  LET bc_class == shorezone_locs[query(shorezone_locs, q)].bc_class
  IN IF bc_class <= RockyMax THEN Rat(7, 10)
     ELSE IF bc_class > RockyMax THEN Rat(44, 100)
     ELSE Zero

(***************************************************************************)
(* DriftResult                                                             *)
(***************************************************************************)
isleap(year) == year % 4 = 0 /\ (year % 100 # 0 \/ year % 400 = 0)

\* calendar.monthrange(year, month)[1]
monthrange(year, month) ==
  << 31, 28, 31, 30, 31, 30, 31, 31, 30, 31, 30, 31 >>[month]
    + (IF month = 2 /\ isleap(year) THEN 1 ELSE 0)

\* pt without the limit of 1
unclipped_pt(counts, ndays_in_month) == Rat(counts, ndays_in_month)

\* lines 271-272: pt of one particle from the count of its AIS cell
clip_pt(counts, ndays_in_month) ==
  LET q == Rat(counts, ndays_in_month)
  IN IF RatLT(One, q) THEN One ELSE q

\* _calc_pt_per_particle
calc_pt_per_particle(tr, date) ==
  [p \in Particles |->
     LET loc == << lon360_to_lon180(tr[p][1].lon), tr[p][1].lat >>
         ix == query(vessel_counts, loc)
     IN clip_pt(vessel_counts[ix].counts, monthrange(date[1], date[2]))]

\* the hazard product without prob_drift
hazard_without_prob(pt_r, pb_s, prob) == RatMul(pt_r, pb_s)

\* line 143: stranding_hazard = pt * pb * prob_drift
stranding_hazard(pt_r, pb_s, prob) == RatMul(RatMul(pt_r, pb_s), prob)

\* a table without rows
NoRows == [id \in {} |-> 0]

RECURSIVE count_loop(_, _, _)
\* the counting loop of _get_stranded_per_esi_segment, from particle k on
count_loop(ids, k, counts) ==
  IF k > Len(ids) THEN counts
  ELSE IF ids[k] = Empty THEN count_loop(ids, k + 1, counts)
  ELSE IF ids[k] \in DOMAIN counts
       THEN count_loop(ids, k + 1, [counts EXCEPT ![ids[k]] = @ + 1])
       ELSE count_loop(ids, k + 1, counts @@ (ids[k] :> 1))

\* _get_stranded_per_esi_segment, given the ids it read
get_stranded_per_esi_segment(ids) == count_loop(ids, 1, NoRows)

\* _calc_pb_per_esi_segment: stranded_by_esi / stranded_by_esi.sum()
calc_pb_per_esi_segment(stranded) ==
  LET total == IntSum(stranded, DOMAIN stranded)
  IN [id \in DOMAIN stranded |-> Rat(stranded[id], total)]

\* pb_per_segment.append(pb_non_stranded)
patch_pb(pb_s) == pb_s @@ (Empty :> Zero)

\* breach_prob_per_particle of _calc_breach_prob_per_particle
calc_breach_prob_per_particle(tr, attr) ==
  LET stranded_flag == get_stranded_flag_from_status(attr)
      stranded_ix == argwhere(tr, stranded_flag, 0)
      locs == stranding_locs(tr, stranded_ix)
      probs == [k \in 1..Len(stranded_ix) |-> get_breach_prob(locs[k])]
  IN Scatter([p \in Particles |-> Zero], stranded_ix, probs, 1)

\* esi_per_particle[esi_per_particle == ''] = None on a 'U15' array
patch_none(ids) ==
  [p \in DOMAIN ids |-> IF ids[p] = Empty THEN AsU15(NoneStr) ELSE ids[p]]

(***************************************************************************)
(* SpillResult                                                             *)
(***************************************************************************)
\* mass of oil a particle carries at the last time step
InitialMasses == {1, 2}

\* ds.mass_oil of the model's spill files: the mass falls by one unit per
\* time step (weathering) to the value m0[p] at the last step
MassFiles ==
  { [p \in Particles |-> [t \in Times |-> m0[p] + NTimes - t]] :
      m0 \in [Particles -> InitialMasses] }

\* contents np.empty(nvessels) may return: zeros when the memory is fresh,
\* the numbers of an earlier array when it is reused
UninitMasses == { [p \in Particles |-> 0], [p \in Particles |-> 5] }

\* the values numpy gives a float division by zero
NaN == <<0, 0>>
Inf == <<1, 0>>

\* a / b as numpy divides float arrays
np_divide(a, b) ==
  IF b[1] = 0 THEN (IF a[1] = 0 THEN NaN ELSE Inf) ELSE RatDiv(a, b)

\* _get_oil_mass_per_particle; uninit is the content of the np.empty array
get_oil_mass_per_particle(tr, attr, mass, uninit) ==
  LET stranded_flag == get_stranded_flag_from_status(attr)
      stranded_ix == argwhere(tr, stranded_flag, 0)
      beached == [k \in 1..Len(stranded_ix) |->
                    mass[stranded_ix[k][1]][stranded_ix[k][2]]]
  IN Scatter(uninit, stranded_ix, beached, 1)

RECURSIVE sum_loop(_, _, _, _)
\* the loop over zip(oil_mass, esi_ids) of _calc_concentration_index, from
\* particle k on; by_esi holds the three dictionaries of the loop
sum_loop(oil_mass, ids, k, by_esi) ==
  IF k > Len(ids) THEN by_esi
  ELSE IF ids[k] = Empty THEN sum_loop(oil_mass, ids, k + 1, by_esi)
  ELSE LET old == IF ids[k] \in DOMAIN by_esi THEN by_esi[ids[k]]
                  ELSE [oil_mass |-> 0, particle_hits |-> 0, region |-> Empty]
           new == [oil_mass |-> old.oil_mass + oil_mass[k],
                   particle_hits |-> old.particle_hits + 1,
                   region |-> RegionOf(ids[k])]
       IN sum_loop(oil_mass, ids, k + 1,
                   (ids[k] :> new) @@ by_esi)

\* oil_mass.max()
max_oil_mass(by_esi) ==
  CHOOSE m \in { by_esi[id].oil_mass : id \in DOMAIN by_esi } :
    \A id \in DOMAIN by_esi : by_esi[id].oil_mass <= m

\* cs of one segment: ensemble_mean_mass / oil_mass.max()
concentration_index(by_esi, id) ==
  np_divide(Rat(by_esi[id].oil_mass, by_esi[id].particle_hits),
            Rat(max_oil_mass(by_esi), 1))

\* lines 134-152 of _calc_concentration_index: the DataFrame, one row per
\* key of the dictionaries, here indexed by esi_id
concentration_frame(by_esi) ==
  LET total == IntSum([id \in DOMAIN by_esi |-> by_esi[id].particle_hits],
                      DOMAIN by_esi)
  IN [id \in DOMAIN by_esi |->
        [oil_mass |-> by_esi[id].oil_mass,
         cs |-> concentration_index(by_esi, id),
         pb |-> Rat(by_esi[id].particle_hits, total),
         particle_hits |-> by_esi[id].particle_hits,
         region |-> by_esi[id].region]]

(***************************************************************************)
(* A drift run: DriftResult.__init__ -> _calc_drift_hazard.                *)
(***************************************************************************)
\* a value not computed yet
Unset == << >>

\* the variables of one drift or spill run
run_vars == << flag_attr, traj, drift_vars, spill_vars >>

RunUnset ==
  /\ flag_attr = Unset
  /\ traj = Unset
  /\ ais_date = Unset
  /\ prob_drift = Unset
  /\ pt = Unset
  /\ esi_per_particle = Unset
  /\ esi_ids = Unset
  /\ stranded_by_esi = Unset
  /\ pb_per_segment = Unset
  /\ pb = Unset
  /\ hazard_cols = Unset
  /\ drift_data = Unset
  /\ mass_oil = Unset
  /\ oil_mass_per_particle = Unset
  /\ spill_esi_ids = Unset
  /\ spill_data = Unset

VARIABLES
  drift_df,                \* drift hazard table read by combine_hazard_results
  spill_df,                \* spill hazard table read by combine_hazard_results
  breach_hazard,           \* grouped drift table, per (date, vessel_type, esi_id)
  spill_hazard,            \* grouped spill table, per (date, vessel_type, esi_id)
  total_hazard,            \* breach_hazard.join(spill_hazard) with hz_s
  total_hazard_with_esi    \* the table combine_hazard_results returns

combine_vars ==
  << drift_df, spill_df, breach_hazard, spill_hazard, total_hazard,
     total_hazard_with_esi >>

CombineUnset ==
  /\ drift_df = Unset
  /\ spill_df = Unset
  /\ breach_hazard = Unset
  /\ spill_hazard = Unset
  /\ total_hazard = Unset
  /\ total_hazard_with_esi = Unset

VARIABLES
  monthly_data,            \* rows of a monthly hazard file, with spill_risk once added
  weighted_data,           \* monthly sums per (vessel_type, esi_id) over nsims
  vessel_ix,               \* position in the loop over vessel_types
  weighted_vessel_data,    \* portal rows per vessel type
  portal_df                \* the table process_monthly_file returns

portal_vars ==
  << monthly_data, weighted_data, vessel_ix, weighted_vessel_data,
     portal_df >>

PortalUnset ==
  /\ monthly_data = Unset
  /\ weighted_data = Unset
  /\ vessel_ix = Unset
  /\ weighted_vessel_data = Unset
  /\ portal_df = Unset

VARIABLES
  ais_year,                \* AISSet.year
  ais_paths,               \* AISSet.paths, the file names in list order
  on_disk,                 \* names of the AIS rasters that exist in ais_dir
  req_vessel_type,         \* vessel_type argument of get_ais_path
  simulation_date,         \* simulation_date argument, as <<year, month>>
  ais_path,                \* the name get_ais_path returned
  ais_raster_date          \* AIS.date of the raster opened, as <<year, month, day>>

ais_vars ==
  << ais_year, ais_paths, on_disk, req_vessel_type, simulation_date,
     ais_path, ais_raster_date >>

AisUnset ==
  /\ ais_year = Unset
  /\ ais_paths = Unset
  /\ on_disk = Unset
  /\ req_vessel_type = Unset
  /\ simulation_date = Unset
  /\ ais_path = Unset
  /\ ais_raster_date = Unset

VARIABLES
  result_kind,             \* "drift" or "spill": which results set is loaded
  result_paths,            \* ResultsSet.paths: the result files, sorted by name
  pending_types,           \* vessel types calculate_hazard has not loaded yet
  load_vessel_type,        \* vessel_type argument of load_results
  specific_paths,          \* the paths load_results kept for the vessel type
  results,                 \* per-run tables of the current load_results call
  loaded,                  \* tables load_results returned to calculate_hazard
  hazard                   \* the table calculate_hazard returns

load_vars ==
  << result_kind, result_paths, pending_types, load_vessel_type,
     specific_paths, results, loaded, hazard >>

LoadUnset ==
  /\ result_kind = Unset
  /\ result_paths = Unset
  /\ pending_types = Unset
  /\ load_vessel_type = Unset
  /\ specific_paths = Unset
  /\ results = Unset
  /\ loaded = Unset
  /\ hazard = Unset

VARIABLES
  esi_frame,               \* ESI.gdf, the table esi_to_locs reads
  esi_exploded,            \* esi.explode(): one row per simple line part
  row_ix,                  \* position in the loop over esi_exploded.iterrows()
  start_ix,                \* start_ix of esi_to_locs
  lons,                    \* lons array of esi_to_locs
  lats,                    \* lats array of esi_to_locs
  loc_esi_ids,             \* esi_ids array of esi_to_locs
  esi_codes,               \* esi_codes array of esi_to_locs
  esi_rows,                \* esi_rows array of esi_to_locs
  locs_df                  \* the DataFrame esi_to_locs returns

esi_vars ==
  << esi_frame, esi_exploded, row_ix, start_ix, lons, lats, loc_esi_ids,
     esi_codes, esi_rows, locs_df >>

EsiUnset ==
  /\ esi_frame = Unset
  /\ esi_exploded = Unset
  /\ row_ix = Unset
  /\ start_ix = Unset
  /\ lons = Unset
  /\ lats = Unset
  /\ loc_esi_ids = Unset
  /\ esi_codes = Unset
  /\ esi_rows = Unset
  /\ locs_df = Unset

VARIABLES
  ds_lon,                  \* ds.lon.values[vessel_ix, time_ix], the longitudes read from a file
  converted_lon            \* lons after utils.lon360_to_lon180(lons)

lon_vars ==
  << ds_lon, converted_lon >>

LonUnset ==
  /\ ds_lon = Unset
  /\ converted_lon = Unset

VARIABLES
  launcher,                \* the launch script that runs: drift or oilspills
  launch_date,             \* date of run_simulations, as the day of the year 2019
  launch_vessel_ix,        \* position in the loop over vessel_types
  attempted,               \* the (date, vessel type) runs started so far
  warnings                 \* number of 'simulation failed' warnings logged

launch_vars ==
  << launcher, launch_date, launch_vessel_ix, attempted, warnings >>

LaunchUnset ==
  /\ launcher = Unset
  /\ launch_date = Unset
  /\ launch_vessel_ix = Unset
  /\ attempted = Unset
  /\ warnings = Unset

VARIABLES
  grs_gdf,                 \* the portal file read by normalize_by_grs
  grs_regions,             \* gdf.region.unique()
  region_ix,               \* position in the loop over regions
  out_parquet              \* rows of the file at out_path, by index label; Unset before it is written

grs_vars ==
  << grs_gdf, grs_regions, region_ix, out_parquet >>

GrsUnset ==
  /\ grs_gdf = Unset
  /\ grs_regions = Unset
  /\ region_ix = Unset
  /\ out_parquet = Unset

\* the variables of the stages after the per-run calculations
pipeline_vars ==
  << combine_vars, portal_vars, ais_vars, load_vars, esi_vars, lon_vars,
     launch_vars, grs_vars >>

PipelineUnset ==
  /\ CombineUnset
  /\ PortalUnset
  /\ AisUnset
  /\ LoadUnset
  /\ EsiUnset
  /\ LonUnset
  /\ LaunchUnset
  /\ GrsUnset

\* everything outside the combine stage
outside_combine ==
  << run_vars, portal_vars, ais_vars, load_vars, esi_vars, lon_vars,
     launch_vars, grs_vars >>

OutsideCombineUnset ==
  /\ RunUnset
  /\ PortalUnset
  /\ AisUnset
  /\ LoadUnset
  /\ EsiUnset
  /\ LonUnset
  /\ LaunchUnset
  /\ GrsUnset

\* everything outside the portal stage
outside_portal ==
  << run_vars, combine_vars, ais_vars, load_vars, esi_vars, lon_vars,
     launch_vars, grs_vars >>

OutsidePortalUnset ==
  /\ RunUnset
  /\ CombineUnset
  /\ AisUnset
  /\ LoadUnset
  /\ EsiUnset
  /\ LonUnset
  /\ LaunchUnset
  /\ GrsUnset

\* everything outside the ais stage
outside_ais ==
  << run_vars, combine_vars, portal_vars, load_vars, esi_vars, lon_vars,
     launch_vars, grs_vars >>

OutsideAisUnset ==
  /\ RunUnset
  /\ CombineUnset
  /\ PortalUnset
  /\ LoadUnset
  /\ EsiUnset
  /\ LonUnset
  /\ LaunchUnset
  /\ GrsUnset

\* everything outside the load stage
outside_load ==
  << run_vars, combine_vars, portal_vars, ais_vars, esi_vars, lon_vars,
     launch_vars, grs_vars >>

OutsideLoadUnset ==
  /\ RunUnset
  /\ CombineUnset
  /\ PortalUnset
  /\ AisUnset
  /\ EsiUnset
  /\ LonUnset
  /\ LaunchUnset
  /\ GrsUnset

\* everything outside the esi stage
outside_esi ==
  << run_vars, combine_vars, portal_vars, ais_vars, load_vars, lon_vars,
     launch_vars, grs_vars >>

OutsideEsiUnset ==
  /\ RunUnset
  /\ CombineUnset
  /\ PortalUnset
  /\ AisUnset
  /\ LoadUnset
  /\ LonUnset
  /\ LaunchUnset
  /\ GrsUnset

\* everything outside the lon stage
outside_lon ==
  << run_vars, combine_vars, portal_vars, ais_vars, load_vars, esi_vars,
     launch_vars, grs_vars >>

OutsideLonUnset ==
  /\ RunUnset
  /\ CombineUnset
  /\ PortalUnset
  /\ AisUnset
  /\ LoadUnset
  /\ EsiUnset
  /\ LaunchUnset
  /\ GrsUnset

\* everything outside the launch stage
outside_launch ==
  << run_vars, combine_vars, portal_vars, ais_vars, load_vars, esi_vars,
     lon_vars, grs_vars >>

OutsideLaunchUnset ==
  /\ RunUnset
  /\ CombineUnset
  /\ PortalUnset
  /\ AisUnset
  /\ LoadUnset
  /\ EsiUnset
  /\ LonUnset
  /\ GrsUnset

\* everything outside the grs stage
outside_grs ==
  << run_vars, combine_vars, portal_vars, ais_vars, load_vars, esi_vars,
     lon_vars, launch_vars >>

OutsideGrsUnset ==
  /\ RunUnset
  /\ CombineUnset
  /\ PortalUnset
  /\ AisUnset
  /\ LoadUnset
  /\ EsiUnset
  /\ LonUnset
  /\ LaunchUnset

vars == << pc, raised, run_vars, pipeline_vars >>

DriftInit ==
  /\ pc = "drift"
  /\ raised = ""
  /\ flag_attr \in FlagAttrs
  /\ traj \in ResultFiles
  /\ ais_date \in AISDates
  /\ prob_drift \in ProbDrifts
  /\ pt = Unset
  /\ esi_per_particle = Unset
  /\ esi_ids = Unset
  /\ stranded_by_esi = Unset
  /\ pb_per_segment = Unset
  /\ pb = Unset
  /\ hazard_cols = Unset
  /\ drift_data = Unset
  /\ mass_oil = Unset
  /\ oil_mass_per_particle = Unset
  /\ spill_esi_ids = Unset
  /\ spill_data = Unset
  /\ PipelineUnset

\* line 137: pt = self._calc_pt_per_particle(ais)
CalcPt ==
  /\ pc = "drift"
  /\ pt' = calc_pt_per_particle(traj, ais_date)
  /\ pc' = "pt"
  /\ UNCHANGED << pipeline_vars, raised, flag_attr, traj, ais_date, prob_drift,
                  esi_per_particle, esi_ids, stranded_by_esi, pb_per_segment,
                  pb, hazard_cols, drift_data, spill_vars >>

\* line 140: pb = self._calc_pb_per_particle(esi), with the calls it makes:
\* _get_esi_per_particle (line 332), then _calc_pb_per_esi_segment ->
\* _get_stranded_per_esi_segment -> _get_esi_per_particle (line 289), each
\* on an array of its own from np.empty
CalcPb ==
  /\ pc = "pt"
  /\ \E u1 \in UninitIds, u2 \in UninitIds :
       /\ esi_per_particle' = get_esi_per_particle(traj, flag_attr, u1)
       /\ esi_ids' = get_esi_per_particle(traj, flag_attr, u2)
  /\ stranded_by_esi' = get_stranded_per_esi_segment(esi_ids')
  /\ pb_per_segment' = calc_pb_per_esi_segment(stranded_by_esi')
  /\ LET patched == patch_pb(pb_per_segment')
     IN IF \A p \in Particles : esi_per_particle'[p] \in DOMAIN patched
        THEN /\ pb' = [p \in Particles |-> patched[esi_per_particle'[p]]]
             /\ pc' = "pb"
             /\ raised' = raised
        ELSE \* .loc with a label that is not in the index
             /\ pb' = pb
             /\ pc' = "raised"
             /\ raised' = "KeyError"
  /\ UNCHANGED << pipeline_vars, flag_attr, traj, ais_date, prob_drift, pt, hazard_cols,
                  drift_data, spill_vars >>

\* lines 143-157: the hazard product, the esi ids (a third array from
\* np.empty) with '' replaced, and the region of every id
CalcHazard ==
  /\ pc = "pb"
  /\ \E u3 \in UninitIds :
       LET ids == patch_none(get_esi_per_particle(traj, flag_attr, u3))
       IN hazard_cols' =
            [p \in Particles |->
               [stranding_hazard |-> stranding_hazard(pt[p], pb[p], prob_drift),
                esi_id |-> ids[p],
                region |-> RegionOf(ids[p])]]
  /\ pc' = "hazard"
  /\ UNCHANGED << pipeline_vars, raised, flag_attr, traj, ais_date, prob_drift, pt,
                  esi_per_particle, esi_ids, stranded_by_esi, pb_per_segment,
                  pb, drift_data, spill_vars >>

\* lines 160-176: the breach probabilities and the DataFrame
CalcBreach ==
  /\ pc = "hazard"
  /\ LET breach_prob == calc_breach_prob_per_particle(traj, flag_attr)
     IN drift_data' =
          [p \in Particles |->
             [pt |-> pt[p],
              pb |-> pb[p],
              stranding_hazard |-> hazard_cols[p].stranding_hazard,
              breach_prob |-> breach_prob[p],
              esi_id |-> hazard_cols[p].esi_id,
              region |-> hazard_cols[p].region]]
  /\ pc' = "done"
  /\ UNCHANGED << pipeline_vars, raised, flag_attr, traj, ais_date, prob_drift, pt,
                  esi_per_particle, esi_ids, stranded_by_esi, pb_per_segment,
                  pb, hazard_cols, spill_vars >>

DriftNext == CalcPt \/ CalcPb \/ CalcHazard \/ CalcBreach

Spec == DriftInit /\ [][DriftNext]_vars

(***************************************************************************)
(* A spill run: SpillResult.__init__ -> _calc_concentration_index.         *)
(***************************************************************************)
SpillInit ==
  /\ pc = "spill"
  /\ raised = ""
  /\ flag_attr \in FlagAttrs
  /\ traj \in ResultFiles
  /\ mass_oil \in MassFiles
  /\ oil_mass_per_particle = Unset
  /\ spill_esi_ids = Unset
  /\ spill_data = Unset
  /\ ais_date = Unset
  /\ prob_drift = Unset
  /\ pt = Unset
  /\ esi_per_particle = Unset
  /\ esi_ids = Unset
  /\ stranded_by_esi = Unset
  /\ pb_per_segment = Unset
  /\ pb = Unset
  /\ hazard_cols = Unset
  /\ drift_data = Unset
  /\ PipelineUnset

\* line 111: oil_mass = self._get_oil_mass_per_particle()
GetOilMass ==
  /\ pc = "spill"
  /\ \E u \in UninitMasses :
       oil_mass_per_particle' =
         get_oil_mass_per_particle(traj, flag_attr, mass_oil, u)
  /\ pc' = "mass"
  /\ UNCHANGED << pipeline_vars, raised, flag_attr, traj, drift_vars, mass_oil,
                  spill_esi_ids, spill_data >>

\* line 112: esi_ids = self._get_esi_per_particle(esi)
GetSpillEsi ==
  /\ pc = "mass"
  /\ \E u \in UninitIds :
       spill_esi_ids' = get_esi_per_particle(traj, flag_attr, u)
  /\ pc' = "esi"
  /\ UNCHANGED << pipeline_vars, raised, flag_attr, traj, drift_vars, mass_oil,
                  oil_mass_per_particle, spill_data >>

\* lines 114-155: the sums per segment, pb, cs and the DataFrame
CalcConcentrationIndex ==
  /\ pc = "esi"
  /\ LET by_esi == sum_loop(oil_mass_per_particle, spill_esi_ids, 1, NoRows)
     IN IF DOMAIN by_esi = {}
        THEN \* oil_mass.max() of a zero-size array
             /\ raised' = "ValueError"
             /\ pc' = "raised"
             /\ spill_data' = spill_data
        ELSE /\ spill_data' = concentration_frame(by_esi)
             /\ pc' = "spill_done"
             /\ raised' = raised
  /\ UNCHANGED << pipeline_vars, flag_attr, traj, drift_vars, mass_oil,
                  oil_mass_per_particle, spill_esi_ids >>

SpillNext == GetOilMass \/ GetSpillEsi \/ CalcConcentrationIndex

SpillSpec == SpillInit /\ [][SpillNext]_vars

(***************************************************************************)
(* What a result file says, read off the file itself.                      *)
(***************************************************************************)
\* "stranded" is one of the words of the file's flag meanings
HasStrandedFlag == \E k \in 1..Len(flag_attr) : flag_attr[k] = "stranded"

\* the number of words before "stranded" in the flag meanings
StrandedCode ==
  Cardinality({ k \in 1..Len(flag_attr) :
                  /\ flag_attr[k] # " "
                  /\ \E j \in (k + 1)..Len(flag_attr) :
                       flag_attr[j] = "stranded" })

StrandedAt(p, t) == HasStrandedFlag /\ traj[p][t].status = StrandedCode

EverStranded(p) == \E t \in Times : StrandedAt(p, t)

StrandedParticles == { p \in Particles : EverStranded(p) }

\* the last time step at which a stranded particle has the stranded status
LastStranded(p) ==
  CHOOSE t \in Times :
    StrandedAt(p, t) /\ \A u \in Times : StrandedAt(p, u) => u <= t

\* position of particle p at time t in [-180, 180)
LocAt(p, t) ==
  << IF traj[p][t].lon >= 180 THEN traj[p][t].lon - 360 ELSE traj[p][t].lon,
     traj[p][t].lat >>

IsNearest(locs, i, q) ==
  \A j \in 1..Len(locs) : Dist2(locs[i], q) <= Dist2(locs[j], q)

\* the segment whose catalog point is nearest to particle p at time t
SegmentAt(p, t) ==
  LET i == CHOOSE i \in 1..Len(esi_locs) : IsNearest(esi_locs, i, LocAt(p, t))
  IN esi_locs[i].esi_id

\* the segment a stranded particle is assigned to
SegmentOf(p) == SegmentAt(p, LastStranded(p))

HitSegments == { SegmentOf(p) : p \in StrandedParticles }

StrandedIn(s) == { p \in StrandedParticles : SegmentOf(p) = s }

\* a = b for rationals in any terms, b with a positive denominator
RatEq(a, b) == a[2] > 0 /\ a[1] * b[2] = b[1] * a[2]

\* 0 <= a <= 1
InUnit(a) == a[2] > 0 /\ 0 <= a[1] /\ a[1] <= a[2]

(***************************************************************************)
(* Properties of a drift run.                                              *)
(***************************************************************************)
PbComputed == pc \in {"pb", "hazard", "done"}

\* C1: in a drift run with K >= 1 stranded particles, pb_per_segment[s] is
\* the number of particles stranded in s divided by K for every hit segment
\* s, the values sum to 1 over the hit segments, and every particle stranded
\* in s carries pb = pb_per_segment[s].
PbIsStrandedShare ==
  (PbComputed /\ StrandedParticles # {}) =>
    /\ \A s \in HitSegments :
         /\ s \in DOMAIN pb_per_segment
         /\ RatEq(pb_per_segment[s],
                  <<Cardinality(StrandedIn(s)), Cardinality(StrandedParticles)>>)
    /\ HitSegments \subseteq DOMAIN pb_per_segment
         => RatEq(RatSum(pb_per_segment, HitSegments), <<1, 1>>)
    /\ \A p \in StrandedParticles :
         /\ SegmentOf(p) \in DOMAIN pb_per_segment
         /\ pb[p] = pb_per_segment[SegmentOf(p)]

\* days of the months of the AIS snapshots of the model
DaysOfSnapshot ==
  IF ais_date = <<2019, 1>> THEN 31 ELSE IF ais_date = <<2020, 2>> THEN 29 ELSE 0

\* the vessel count of the AIS cell nearest to the release position of p
ReleaseCount(p) ==
  LET i == CHOOSE i \in 1..Len(vessel_counts) :
             IsNearest(vessel_counts, i, LocAt(p, 1))
  IN vessel_counts[i].counts

\* C2: for every particle, pt = min(count / days_in_month, 1) with count the
\* vessel count of the AIS cell nearest to its release position and
\* days_in_month the days of the snapshot's month; hence 0 <= pt <= 1.
PtIsClippedDailyCount ==
  pt # Unset =>
    \A p \in Particles :
      /\ IF ReleaseCount(p) >= DaysOfSnapshot
            THEN RatEq(pt[p], <<1, 1>>)
            ELSE RatEq(pt[p], <<ReleaseCount(p), DaysOfSnapshot>>)
      /\ InUnit(pt[p])

\* a run whose pt holds a clipped value (255 vessels in 31 days) and an
\* unclipped one (14 vessels in 31 days)
PtClippedAndUnclipped ==
  /\ pt # Unset
  /\ ais_date = <<2019, 1>>
  /\ \E p \in Particles : ReleaseCount(p) = 255 /\ pt[p] = <<1, 1>>
  /\ \E p \in Particles : ReleaseCount(p) = 14 /\ pt[p] = <<14, 31>>

\* C3: for every row of a drift run, stranding_hazard = pt * pb * prob_drift
\* and, for 0 <= prob_drift <= 1, 0 <= pb <= 1 and 0 <= stranding_hazard <= 1.
HazardIsProduct ==
  (pc = "done" /\ InUnit(prob_drift)) =>
    \A p \in Particles :
      LET row == drift_data[p]
      IN /\ row.stranding_hazard[1] * row.pt[2] * row.pb[2] * prob_drift[2]
              = row.pt[1] * row.pb[1] * prob_drift[1] * row.stranding_hazard[2]
         /\ row.stranding_hazard[2] > 0
         /\ InUnit(row.pb)
         /\ InUnit(row.stranding_hazard)

\* a finished run with the default prob_drift, a row with a hazard above 0
\* and a row with pb strictly between 0 and 1
HazardAboveZero ==
  /\ pc = "done"
  /\ prob_drift = <<3, 5000>>
  /\ \E p \in Particles : drift_data[p].stranding_hazard[1] > 0
  /\ \E p \in Particles : drift_data[p].pb = <<1, 2>>

\* C4: the nstranded values of _get_stranded_per_esi_segment sum to the
\* number of particles that have the stranded status at some time step, and
\* so does the number of particles with a non-empty esi_id.
StrandedCountedOnce ==
  stranded_by_esi # Unset =>
    /\ IntSum(stranded_by_esi, DOMAIN stranded_by_esi)
         = Cardinality(StrandedParticles)
    /\ Cardinality({ p \in Particles : esi_ids[p] # Empty })
         = Cardinality(StrandedParticles)

\* C5: a drift run without any stranded particle does not raise; its
\* per-segment table is empty and every particle's pb is 0.
NoStrandingGivesZeroPb ==
  (StrandedParticles = {} /\ pc \in {"pb", "hazard", "done", "raised"}) =>
    /\ raised = ""
    /\ DOMAIN stranded_by_esi = {}
    /\ DOMAIN pb_per_segment = {}
    /\ \A p \in Particles : pb[p] = Zero

\* C6: a result file whose flag meanings lack "stranded" makes the run fail:
\* the run produces no table and does not go on past the resolution of the
\* stranded code.
MissingFlagFails ==
  ~HasStrandedFlag => (drift_data = Unset /\ ~PbComputed)

\* the beach class of the ShoreZone point nearest to p at time t gives 0.7
\* up to class 20 and 0.44 above
BreachProbAt(p, t) ==
  LET i == CHOOSE i \in 1..Len(shorezone_locs) :
             IsNearest(shorezone_locs, i, LocAt(p, t))
  IN IF shorezone_locs[i].bc_class <= 20 THEN <<7, 10>> ELSE <<11, 25>>

\* C10: every stranded particle has the breach probability of the beach
\* class nearest to its stranding location (0.7 up to class 20, 0.44 above),
\* every particle that never stranded has 0.
BreachProbByBeachClass ==
  pc = "done" =>
    \A p \in Particles :
      /\ EverStranded(p) =>
           \E t \in Times :
             StrandedAt(p, t) /\ drift_data[p].breach_prob = BreachProbAt(p, t)
      /\ ~EverStranded(p) => drift_data[p].breach_prob = <<0, 1>>
      /\ drift_data[p].breach_prob \in { <<0, 1>>, <<11, 25>>, <<7, 10>> }

\* a finished run with a particle stranded on a class-20 beach and one on a
\* class-21 beach
BreachOnBothClasses ==
  /\ pc = "done"
  /\ \E p \in StrandedParticles : drift_data[p].breach_prob = <<7, 10>>
  /\ \E p \in StrandedParticles : drift_data[p].breach_prob = <<11, 25>>

(***************************************************************************)
(* Properties of a spill run.                                              *)
(***************************************************************************)
\* the beached mass of a stranded particle
BeachedMass(p) == mass_oil[p][LastStranded(p)]

\* mean_mass[s] = oil_mass[s] / particle_hits[s] of a row of the table
MeanMass(s) == <<spill_data[s].oil_mass, spill_data[s].particle_hits>>

\* a <= b for rationals with positive denominators
MeanLE(a, b) == a[1] * b[2] <= b[1] * a[2]

\* s has the maximum mean beached mass of the table
HasMaxMean(s) ==
  \A r \in DOMAIN spill_data : MeanLE(MeanMass(r), MeanMass(s))

\* C7: for a spill run with a hit segment, cs[s] = mean_mass[s] / maximum
\* of mean_mass over the hit segments: the segment with the maximum mean
\* beached mass has cs = 1 and every cs is in [0, 1].
CsIsMeanOverMaxMean ==
  pc = "spill_done" =>
    \A s \in DOMAIN spill_data :
      /\ InUnit(spill_data[s].cs)
      /\ \A m \in DOMAIN spill_data :
           HasMaxMean(m) =>
             \* cs[s] * mean_mass[m] = mean_mass[s]
             spill_data[s].cs[1] * MeanMass(m)[1] * MeanMass(s)[2]
               = MeanMass(s)[1] * spill_data[s].cs[2] * MeanMass(m)[2]
      /\ HasMaxMean(s) => spill_data[s].cs = <<1, 1>>

\* C8: the table of a spill run has one row per segment that received a
\* stranded particle; oil_mass[s] is the sum of the beached mass of the
\* particles assigned to s, particle_hits[s] their number and
\* pb[s] = particle_hits[s] / total hits, so that particle_hits sums to the
\* number of stranded particles and pb sums to 1.
SpillRowsAreHitSegments ==
  pc = "spill_done" =>
    /\ DOMAIN spill_data = HitSegments
    /\ \A s \in DOMAIN spill_data :
         /\ spill_data[s].particle_hits > 0
         /\ spill_data[s].particle_hits = Cardinality(StrandedIn(s))
         /\ spill_data[s].oil_mass
              = IntSum([p \in Particles |-> BeachedMass(p)], StrandedIn(s))
         /\ RatEq(spill_data[s].pb,
                  <<spill_data[s].particle_hits, Cardinality(StrandedParticles)>>)
    /\ IntSum([s \in DOMAIN spill_data |-> spill_data[s].particle_hits],
              DOMAIN spill_data) = Cardinality(StrandedParticles)
    /\ RatEq(RatSum([s \in DOMAIN spill_data |-> spill_data[s].pb],
                    DOMAIN spill_data), <<1, 1>>)

\* C9: a spill run without any stranded particle does not raise and yields
\* an empty table.
NoHitsGiveEmptyTable ==
  (StrandedParticles = {} /\ pc \in {"spill_done", "raised"}) =>
    /\ raised = ""
    /\ DOMAIN spill_data = {}

(***************************************************************************)
(* Character strings: order, split and int() as Python has them.           *)
(***************************************************************************)
Digits == <<"0", "1", "2", "3", "4", "5", "6", "7", "8", "9">>

\* the characters of the model's strings in code point order
Alphabet ==
  <<"-", ".", "/">> \o Digits \o
  <<"A", "B", "N", "S", "_">> \o
  <<"a", "b", "c", "d", "e", "f", "g", "h", "i", "k", "l", "m", "n", "o",
    "p", "r", "s", "t", "u", "w">>

ord(c) == CHOOSE i \in 1..Len(Alphabet) : Alphabet[i] = c

RECURSIVE StrLT(_, _)
\* a < b for two strings
StrLT(a, b) ==
  IF Len(b) = 0 THEN FALSE
  ELSE IF Len(a) = 0 THEN TRUE
  ELSE IF a[1] = b[1] THEN StrLT(Tail(a), Tail(b))
  ELSE ord(a[1]) < ord(b[1])

RECURSIVE Find(_, _, _)
\* position of the first c of s at or after k, Len(s) + 1 when there is none
Find(s, c, k) ==
  IF k > Len(s) THEN k ELSE IF s[k] = c THEN k ELSE Find(s, c, k + 1)

RECURSIVE str_split(_, _)
\* s.split(c)
str_split(s, c) ==
  LET i == Find(s, c, 1)
  IN IF i > Len(s) THEN << s >>
     ELSE << SubSeq(s, 1, i - 1) >> \o str_split(SubSeq(s, i + 1, Len(s)), c)

\* code.isnumeric()
isnumeric(code) ==
  Len(code) > 0 /\ \A i \in 1..Len(code) : \E d \in 1..10 : Digits[d] = code[i]

RECURSIVE int(_)
\* int(code) for a string of digits
int(code) ==
  IF Len(code) = 0 THEN 0
  ELSE 10 * int(SubSeq(code, 1, Len(code) - 1))
         + (CHOOSE d \in 0..9 : Digits[d + 1] = code[Len(code)])

(***************************************************************************)
(* esi.py: clean_esi_string.                                               *)
(***************************************************************************)
\* lines 174-178: the text handed to int() for one code of the string
strip_code(code) ==
  IF code = NoneStr THEN << "5" >>
  ELSE IF ~isnumeric(code) THEN SubSeq(code, 1, Len(code) - 1)
  ELSE code

\* int() raises ValueError for one of the codes
clean_esi_raises(esi) ==
  LET codes == str_split(esi, "/")
  IN \E i \in 1..Len(codes) : ~isnumeric(strip_code(codes[i]))

\* clean_esi_string returning the value of its first code
clean_esi_string_first(esi) == int(strip_code(str_split(esi, "/")[1]))

\* clean_esi_string(esi) when it does not raise
clean_esi_string(esi) ==
  LET codes == str_split(esi, "/")
      esi_vals == { int(strip_code(codes[i])) : i \in 1..Len(codes) }
  IN CHOOSE v \in esi_vals : \A w \in esi_vals : w <= v

(***************************************************************************)
(* calculate-total-hazard-and-risk.py: combine_hazard_results.             *)
(***************************************************************************)
NDriftRows == 2
NSpillRows == 2

W1 == <<"w", "-", "1">>
SE2 == <<"s", "e", "-", "2">>

\* the ESI catalog file: one row per segment, esi as the text of the file.
\* Segment ids are unique in the catalog.
esi_gdf ==
  << [esi_id |-> W1, esi |-> <<"3", "/", "8", "B">>, length |-> 2],
     [esi_id |-> SE2, esi |-> <<"1", "0", "A">>, length |-> 3] >>

\* the (date, vessel_type) of the runs behind the tables
Runs ==
  { [date |-> "2019-01-03", vessel_type |-> "cargo"],
    [date |-> "2019-01-17", vessel_type |-> "tanker"] }

\* rows of the drift hazard table: one per particle, 'None' as the segment
\* of a particle that never stranded
DriftRows ==
  { [date |-> r.date, vessel_type |-> r.vessel_type, esi_id |-> o[1],
     stranding_hazard |-> o[2], breach_prob |-> o[3]] :
      r \in Runs,
      o \in { << W1, Rat(1, 10), Rat(1, 2) >>, << SE2, Rat(1, 5), One >>,
              << SE2, Zero, One >>, << NoneStr, Zero, Zero >> } }

\* rows of the spill hazard table: one per run and segment hit
SpillRows ==
  { [date |-> r.date, vessel_type |-> r.vessel_type, esi_id |-> o[1],
     oil_mass |-> o[2], cs |-> o[3], pb |-> o[4]] :
      r \in Runs,
      o \in { << W1, Rat(3, 1), One, Rat(1, 2) >>,
              << SE2, One, Rat(1, 3), Rat(1, 2) >> } }

\* the group key of a row
KeyOf(row) == << row.date, row.vessel_type, row.esi_id >>

Keys(df) == { KeyOf(df[i]) : i \in DOMAIN df }

\* df.groupby([...]).agg({column: 'last'}) at one key
groupby_last(df, column, key) ==
  LET rows == { i \in DOMAIN df : KeyOf(df[i]) = key }
  IN df[CHOOSE i \in rows : \A j \in rows : j <= i][column]

\* df.groupby([...]).agg({column: 'sum'}) at one key
groupby_sum(df, column, key) ==
  RatSum([i \in DOMAIN df |-> df[i][column]],
         { i \in DOMAIN df : KeyOf(df[i]) = key })

\* a * b as numpy multiplies floats: NaN when either is NaN
np_multiply(a, b) == IF a = NaN \/ b = NaN THEN NaN ELSE RatMul(a, b)

\* fillna(0) on one value
fillna(v) == IF v = NaN THEN Zero ELSE v

\* line 40, without the concentration index
hz_s_without_cs(row) == np_multiply(row.breach_hazard, row.pb)

\* line 40: breach_hazard * pb * cs
hz_s(row) == np_multiply(np_multiply(row.breach_hazard, row.pb), row.cs)

\* lines 17-27: breach hazard per particle, summed per key, zero sums dropped
group_drift(df) ==
  LET with_bh == [i \in DOMAIN df |->
                    [breach_hazard |->
                       RatMul(df[i].stranding_hazard, df[i].breach_prob)]
                    @@ df[i]]
      kept == { k \in Keys(df) :
                  RatLT(Zero, groupby_sum(with_bh, "breach_hazard", k)) }
  IN [k \in kept |->
        [breach_hazard |-> groupby_sum(with_bh, "breach_hazard", k)]]

\* lines 30-35
group_spill(df) ==
  [k \in Keys(df) |->
     [oil_mass |-> groupby_sum(df, "oil_mass", k),
      cs |-> groupby_sum(df, "cs", k),
      pb |-> groupby_sum(df, "pb", k)]]

\* line 37: left.join(right) keeps the keys of left; the columns of right
\* are NaN where right has no such key
join(left, right) ==
  [k \in DOMAIN left |->
     left[k] @@ (IF k \in DOMAIN right THEN right[k]
                 ELSE [oil_mass |-> NaN, cs |-> NaN, pb |-> NaN])]

\* line 44: pd.merge(left, esi, on='esi_id') keeps the rows whose esi_id is
\* in both tables
merge(left, esi) ==
  LET ix(k) == CHOOSE i \in 1..Len(esi) : esi[i].esi_id = k[3]
  IN [k \in { l \in DOMAIN left :
                \E i \in 1..Len(esi) : esi[i].esi_id = l[3] } |->
        left[k] @@ [esi |-> esi[ix(k)].esi, length |-> esi[ix(k)].length]]

\* lines 46-50: the sensitivity as a number, NaN as 0
clean_and_fill(tab) ==
  [k \in DOMAIN tab |->
     [breach_hazard |-> fillna(tab[k].breach_hazard),
      oil_mass |-> fillna(tab[k].oil_mass),
      cs |-> fillna(tab[k].cs),
      pb |-> fillna(tab[k].pb),
      hz_s |-> fillna(tab[k].hz_s),
      esi |-> clean_esi_string(tab[k].esi),
      length |-> tab[k].length]]

CombineInit ==
  /\ pc = "combine"
  /\ raised = ""
  /\ drift_df \in [1..NDriftRows -> DriftRows]
  /\ spill_df \in [1..NSpillRows -> SpillRows]
  /\ breach_hazard = Unset
  /\ spill_hazard = Unset
  /\ total_hazard = Unset
  /\ total_hazard_with_esi = Unset
  /\ OutsideCombineUnset

\* lines 17-27
GroupDrift ==
  /\ pc = "combine"
  /\ breach_hazard' = group_drift(drift_df)
  /\ pc' = "drift_grouped"
  /\ UNCHANGED << raised, outside_combine, drift_df,
                  spill_df, spill_hazard, total_hazard,
                  total_hazard_with_esi >>

\* lines 30-35
GroupSpill ==
  /\ pc = "drift_grouped"
  /\ spill_hazard' = group_spill(spill_df)
  /\ pc' = "spill_grouped"
  /\ UNCHANGED << raised, outside_combine, drift_df,
                  spill_df, breach_hazard, total_hazard,
                  total_hazard_with_esi >>

\* lines 37-40
JoinHazard ==
  /\ pc = "spill_grouped"
  /\ LET joined == join(breach_hazard, spill_hazard)
     IN total_hazard' =
          [k \in DOMAIN joined |-> [hz_s |-> hz_s(joined[k])] @@ joined[k]]
  /\ pc' = "joined"
  /\ UNCHANGED << raised, outside_combine, drift_df,
                  spill_df, breach_hazard, spill_hazard,
                  total_hazard_with_esi >>

\* lines 43-53
MergeEsi ==
  /\ pc = "joined"
  /\ total_hazard_with_esi' = clean_and_fill(merge(total_hazard, esi_gdf))
  /\ pc' = "combined"
  /\ UNCHANGED << raised, outside_combine, drift_df,
                  spill_df, breach_hazard, spill_hazard, total_hazard >>

CombineNext == GroupDrift \/ GroupSpill \/ JoinHazard \/ MergeEsi

CombineSpec == CombineInit /\ [][CombineNext]_vars

\* the keys of the two grouped tables
DriftKeys == DOMAIN breach_hazard
SpillKeys == DOMAIN spill_hazard

\* C11: once the grouped tables are joined, every (date, vessel_type,
\* esi_id) key of either grouped table is a key of the joined table, a key
\* of the spill side alone with breach_hazard 0 and a key of the drift side
\* alone with oil_mass, cs and pb 0 in the table that is returned.
JoinKeepsAllKeys ==
  /\ pc \in {"joined", "combined"} =>
       \A k \in DriftKeys \cup SpillKeys : k \in DOMAIN total_hazard
  /\ pc = "combined" =>
       \A k \in DriftKeys \cup SpillKeys :
         /\ k \in DOMAIN total_hazard_with_esi
         /\ k \notin DriftKeys =>
              total_hazard_with_esi[k].breach_hazard = Zero
         /\ k \notin SpillKeys =>
              /\ total_hazard_with_esi[k].oil_mass = Zero
              /\ total_hazard_with_esi[k].cs = Zero
              /\ total_hazard_with_esi[k].pb = Zero

\* stranding_hazard * breach_prob summed over the drift particles of key k
ParticleBreachSum(k) ==
  RatSum([i \in DOMAIN drift_df |->
            RatMul(drift_df[i].stranding_hazard, drift_df[i].breach_prob)],
         { i \in DOMAIN drift_df : KeyOf(drift_df[i]) = k })

\* a column summed over the spill rows of key k, 0 when there are none
SpillRowSum(column, k) ==
  RatSum([i \in DOMAIN spill_df |-> spill_df[i][column]],
         { i \in DOMAIN spill_df : KeyOf(spill_df[i]) = k })

NMonthRows == 2

\* lines 19-29: the region names by the prefix of the segment id
regions ==
  {
    << <<"a", "l", "e", "u", "t", "i", "a", "n", "s">>,
       "Aleutians" >>,
    << <<"b", "r", "i", "s", "t", "o", "l", "b", "a", "y">>,
       "Bristol Bay" >>,
    << <<"c", "o", "o", "k", "i", "n", "l", "e", "t">>,
       "Cook Inlet" >>,
    << <<"k", "o", "d", "i", "a", "k">>,
       "Kodiak" >>,
    << <<"n", "o", "r", "t", "h", "s", "l", "o", "p", "e">>,
       "North Slope" >>,
    << <<"n", "w", "a", "r", "c", "t", "i", "c">>,
       "Northwest Arctic" >>,
    << <<"p", "w", "s", "o", "u", "n", "d">>,
       "Prince William Sound" >>,
    << <<"s", "e">>,
       "Southeast" >>,
    << <<"w">>,
       "Western" >>
  }

\* line 30: regions[esi_id.split('-')[0]]; the lookup raises KeyError when
\* the prefix is not a key
region_known(esi_id) == \E r \in regions : r[1] = RegionOf(esi_id)

esi_id_to_region(esi_id) ==
  (CHOOSE r \in regions : r[1] = RegionOf(esi_id))[2]

\* line 118 of main: the catalog with the sensitivity as a number
portal_gdf ==
  [i \in 1..Len(esi_gdf) |->
     [esi_id |-> esi_gdf[i].esi_id,
      esi |-> clean_esi_string(esi_gdf[i].esi),
      length |-> esi_gdf[i].length]]

\* the sensitivity combine_hazard_results stored for a segment
EsiOf(esi_id) ==
  portal_gdf[CHOOSE i \in 1..Len(portal_gdf) : portal_gdf[i].esi_id = esi_id]
    .esi

\* rows of a monthly hazard file: rows of the tables combine_hazard_results
\* returned for the simulation dates of the month
MonthlyRows ==
  { [date |-> d, vessel_type |-> vt, esi_id |-> id, breach_hazard |-> v[1],
     hz_s |-> v[2], esi |-> EsiOf(id)] :
      d \in {"2019-01-03", "2019-01-17"}, vt \in {"cargo", "tanker"},
      id \in {W1, SE2},
      v \in { << Rat(1, 10), Rat(1, 20) >>, << Rat(1, 5), Zero >> } }

\* the tables hold one row per (date, vessel_type, esi_id)
MonthlyFiles ==
  { t \in [1..NMonthRows -> MonthlyRows] :
      \A i, j \in 1..NMonthRows : KeyOf(t[i]) = KeyOf(t[j]) => i = j }

\* line 48: the date in the name of the monthly file
month_date == "2019-01-01"

\* line 66
vessel_types == << "cargo", "other", "passenger", "tanker" >>

\* line 54, without the division by 10
spill_risk_undivided(row) == RatMul(row.hz_s, Rat(row.esi, 1))

\* line 54: hz_s * esi / 10.0
spill_risk(row) == RatDiv(RatMul(row.hz_s, Rat(row.esi, 1)), Rat(10, 1))

\* line 57: len(monthly_data.date.unique())
nsims(df) == Cardinality({ df[i].date : i \in DOMAIN df })

\* lines 58-62: sums per (vessel_type, esi_id), over nsims
weighted(df) ==
  LET rows(k) == { i \in DOMAIN df :
                     << df[i].vessel_type, df[i].esi_id >> = k }
      mean(column, k) ==
        RatDiv(RatSum([i \in DOMAIN df |-> df[i][column]], rows(k)),
               Rat(nsims(df), 1))
  IN [k \in { << df[i].vessel_type, df[i].esi_id >> : i \in DOMAIN df } |->
        [breach_hazard |-> mean("breach_hazard", k),
         spill_hazard |-> mean("hz_s", k),
         spill_risk |-> mean("spill_risk", k)]]

\* lines 73-74: the catalog in the order of its segment ids
sort_index(df) ==
  [i \in 1..Len(df) |->
     df[CHOOSE j \in 1..Len(df) :
          Cardinality({ k \in 1..Len(df) :
                          StrLT(df[k].esi_id, df[j].esi_id) }) = i - 1]]

\* one row of lines 76-99: the catalog row with the values of the vessel
\* type, 0 where the vessel type has none for the segment
portal_row(c, vessel_type, wd) ==
  LET k == << vessel_type, c.esi_id >>
      hit == k \in DOMAIN wd
  IN [date_utc |-> << month_date, "T00:00:00" >>,
      vessel_type |-> vessel_type,
      region |-> esi_id_to_region(c.esi_id),
      esi_id |-> c.esi_id,
      esi |-> c.esi,
      breach_hazard |-> IF hit THEN wd[k].breach_hazard ELSE Zero,
      spill_hazard |-> IF hit THEN wd[k].spill_hazard ELSE Zero,
      spill_risk |-> IF hit THEN wd[k].spill_risk ELSE Zero]

\* lines 68-99 as a join that keeps the segments of the vessel type only
subset_hit_only(vessel_type, wd) ==
  LET df2 == sort_index(portal_gdf)
      hit(c) == << vessel_type, c.esi_id >> \in DOMAIN wd
      kept == SelectSeq(df2, hit)
  IN [i \in 1..Len(kept) |-> portal_row(kept[i], vessel_type, wd)]

\* lines 68-99: df2.join(df1).fillna(0), one row per catalog segment
subset(vessel_type, wd) ==
  LET df2 == sort_index(portal_gdf)
  IN [i \in 1..Len(df2) |-> portal_row(df2[i], vessel_type, wd)]

\* line 106 with the rows of the right table taken in reverse
add_reversed(left, right, column) ==
  [i \in 1..Len(left) |->
     [left[i] EXCEPT
        ![column] = RatAdd(@, right[Len(right) + 1 - i][column])]]

\* line 106: all_tmp[column] += other[column]; the two tables carry the
\* index 0..n-1 of reset_index and are added label by label
add_aligned(left, right, column) ==
  [i \in 1..Len(left) |->
     [left[i] EXCEPT ![column] = RatAdd(@, right[i][column])]]

RECURSIVE add_all(_, _, _)
\* lines 104-106 for the vessel types from position k on
add_all(all_tmp, wvd, k) ==
  IF k > Len(vessel_types) THEN all_tmp
  ELSE add_all(
         add_aligned(
           add_aligned(
             add_aligned(all_tmp, wvd[vessel_types[k]], "breach_hazard"),
             wvd[vessel_types[k]], "spill_hazard"),
           wvd[vessel_types[k]], "spill_risk"),
         wvd, k + 1)

\* lines 103-108
all_vessel_types(wvd) ==
  LET all_tmp == add_all(wvd[vessel_types[1]], wvd, 2)
  IN [i \in 1..Len(all_tmp) |-> [all_tmp[i] EXCEPT !.vessel_type = "all"]]

PortalInit ==
  /\ pc = "month"
  /\ raised = ""
  /\ monthly_data \in MonthlyFiles
  /\ weighted_data = Unset
  /\ vessel_ix = 1
  /\ weighted_vessel_data = Unset
  /\ portal_df = Unset
  /\ OutsidePortalUnset

\* lines 51-62
WeightMonth ==
  /\ pc = "month"
  /\ monthly_data' =
       [i \in DOMAIN monthly_data |->
          [spill_risk |-> spill_risk(monthly_data[i])] @@ monthly_data[i]]
  /\ weighted_data' = weighted(monthly_data')
  /\ pc' = "weighted"
  /\ UNCHANGED << raised, outside_portal, vessel_ix, weighted_vessel_data,
                  portal_df >>

\* lines 67-100, one pass of the loop
SubsetVesselType ==
  /\ pc = "weighted"
  /\ vessel_ix <= Len(vessel_types)
  /\ IF \A i \in 1..Len(portal_gdf) : region_known(portal_gdf[i].esi_id)
     THEN /\ weighted_vessel_data' =
               (vessel_types[vessel_ix] :>
                  subset(vessel_types[vessel_ix], weighted_data))
               @@ weighted_vessel_data
          /\ vessel_ix' = vessel_ix + 1
          /\ pc' = IF vessel_ix = Len(vessel_types) THEN "subsets" ELSE pc
          /\ raised' = raised
     ELSE /\ pc' = "raised"
          /\ raised' = "KeyError"
          /\ UNCHANGED << weighted_vessel_data, vessel_ix >>
  /\ UNCHANGED << outside_portal, monthly_data, weighted_data, portal_df >>

\* lines 103-108
SumAll ==
  /\ pc = "subsets"
  /\ weighted_vessel_data' =
       ("all" :> all_vessel_types(weighted_vessel_data))
       @@ weighted_vessel_data
  /\ pc' = "all"
  /\ UNCHANGED << raised, outside_portal, monthly_data, weighted_data,
                  vessel_ix, portal_df >>

\* line 111: pd.concat(weighted_vessel_data.values())
ConcatMonth ==
  /\ pc = "all"
  /\ portal_df' =
       weighted_vessel_data["cargo"] \o weighted_vessel_data["other"]
         \o weighted_vessel_data["passenger"]
         \o weighted_vessel_data["tanker"] \o weighted_vessel_data["all"]
  /\ pc' = "portal_done"
  /\ UNCHANGED << raised, outside_portal, monthly_data, weighted_data,
                  vessel_ix, weighted_vessel_data >>

PortalNext == WeightMonth \/ SubsetVesselType \/ SumAll \/ ConcatMonth

PortalSpec == PortalInit /\ [][PortalNext]_vars

\* the rows of the returned table for a vessel type and a segment
PortalRows(vessel_type, esi_id) ==
  { i \in 1..Len(portal_df) :
      /\ portal_df[i].vessel_type = vessel_type
      /\ portal_df[i].esi_id = esi_id }

\* the rows of the month for a vessel type ("all": any of vessel_types) and
\* a segment
MonthRowsOf(vessel_type, esi_id) ==
  { i \in DOMAIN monthly_data :
      /\ monthly_data[i].esi_id = esi_id
      /\ IF vessel_type = "all"
         THEN \E k \in 1..Len(vessel_types) :
                monthly_data[i].vessel_type = vessel_types[k]
         ELSE monthly_data[i].vessel_type = vessel_type }

PortalVesselTypes == { vessel_types[k] : k \in 1..Len(vessel_types) } \cup {"all"}

CatalogIds == { esi_gdf[i].esi_id : i \in 1..Len(esi_gdf) }

MonthSum(column, vessel_type, esi_id) ==
  RatSum([i \in DOMAIN monthly_data |-> monthly_data[i][column]],
         MonthRowsOf(vessel_type, esi_id))

\* the number of distinct simulation dates among the rows of the month
DistinctDates == Cardinality({ monthly_data[i].date : i \in DOMAIN monthly_data })

\* C14: every row of the month gets spill_risk = hz_s * (esi / 10), and for
\* each of cargo, other, passenger and tanker and each segment the returned
\* breach_hazard, spill_hazard and spill_risk are the sums of breach_hazard,
\* hz_s and spill_risk over the rows of the month divided by the number of
\* distinct dates of the month, with 0 <= spill_risk <= spill_hazard.
MonthlyMeans ==
  /\ pc \in {"weighted", "subsets", "all", "portal_done"} =>
       \A i \in DOMAIN monthly_data :
         /\ monthly_data[i].esi \in 1..10
         /\ monthly_data[i].spill_risk =
              RatMul(monthly_data[i].hz_s, Rat(monthly_data[i].esi, 10))
  /\ pc = "portal_done" =>
       \A i \in 1..Len(portal_df) :
         LET r == portal_df[i]
             n == Rat(DistinctDates, 1)
         IN /\ r.vessel_type # "all" =>
                 /\ r.breach_hazard =
                      RatDiv(MonthSum("breach_hazard", r.vessel_type, r.esi_id), n)
                 /\ r.spill_hazard =
                      RatDiv(MonthSum("hz_s", r.vessel_type, r.esi_id), n)
                 /\ r.spill_risk =
                      RatDiv(MonthSum("spill_risk", r.vessel_type, r.esi_id), n)
            /\ ~RatLT(r.spill_risk, Zero)
            /\ ~RatLT(r.spill_hazard, r.spill_risk)

\* a month with two simulation dates and a returned row whose spill_risk is
\* positive and below its spill_hazard
TwoDatesAndRisk ==
  /\ pc = "portal_done"
  /\ DistinctDates = 2
  /\ \E i \in 1..Len(portal_df) :
       /\ portal_df[i].vessel_type # "all"
       /\ RatLT(Zero, portal_df[i].spill_risk)
       /\ RatLT(portal_df[i].spill_risk, portal_df[i].spill_hazard)

\* a column of the rows of the four vessel types for a segment, summed
VesselTypeSum(column, esi_id) ==
  LET ix == { i \in 1..Len(portal_df) :
                portal_df[i].vessel_type # "all"
                  /\ portal_df[i].esi_id = esi_id }
  IN RatSum([i \in 1..Len(portal_df) |-> portal_df[i][column]], ix)

\* C15: in the returned table the row of vessel type 'all' of a segment has
\* breach_hazard, spill_hazard and spill_risk equal to the sums of these
\* columns over the cargo, other, passenger and tanker rows of that segment.
AllIsSegmentSum ==
  pc = "portal_done" =>
    \A i \in 1..Len(portal_df) :
      portal_df[i].vessel_type = "all" =>
        /\ portal_df[i].breach_hazard =
             VesselTypeSum("breach_hazard", portal_df[i].esi_id)
        /\ portal_df[i].spill_hazard =
             VesselTypeSum("spill_hazard", portal_df[i].esi_id)
        /\ portal_df[i].spill_risk =
             VesselTypeSum("spill_risk", portal_df[i].esi_id)

\* a segment with hazard from two vessel types while another segment has
\* none, so that a sum across segments would differ
TwoVesselTypesOnOneSegment ==
  /\ pc = "portal_done"
  /\ \E id \in CatalogIds :
       /\ MonthRowsOf("cargo", id) # {}
       /\ MonthRowsOf("tanker", id) # {}
       /\ \E other \in CatalogIds : MonthRowsOf("all", other) = {}

(***************************************************************************)
(* ais.py: AISSet and AIS.                                                 *)
(***************************************************************************)
\* lines 10-15
VESSEL_TYPES ==
  << <<"c", "a", "r", "g", "o", "S", "h", "i", "p", "s">>,
     <<"p", "a", "s", "s", "e", "n", "g", "e", "r", "S", "h", "i", "p", "s">>,
     <<"o", "t", "h", "e", "r", "S", "h", "i", "p", "s">>,
     <<"t", "a", "n", "k", "e", "r", "S", "h", "i", "p", "s">> >>

\* f"{n:02}" and f"{year}" for a four-digit year
two_digits(n) == << Digits[(n \div 10) + 1], Digits[(n % 10) + 1] >>
four_digits(n) == two_digits(n \div 100) \o two_digits(n % 100)

\* f"{year}{month:02}01"
date_stamp(year, month) == four_digits(year) \o two_digits(month) \o <<"0", "1">>

\* line 55: the name for a vessel type and month
path_template(vessel_type, year, month, end_year, end_month) ==
  vessel_type \o <<"_">> \o date_stamp(year, month) \o <<"-">>
    \o date_stamp(end_year, end_month) \o <<"_", "t", "o", "t", "a", "l", ".", "t", "i", "f">>

\* lines 43-59: month by month, the vessel types within a month
get_ais_paths(year, types) ==
  [k \in 1..(12 * Len(types)) |->
     LET month == ((k - 1) \div Len(types)) + 1
         vessel_type == types[((k - 1) % Len(types)) + 1]
     IN path_template(vessel_type, year, month,
                      IF month = 12 THEN year + 1 ELSE year,
                      IF month = 12 THEN 1 ELSE month + 1)]

\* sub in s, for two strings
contains(s, sub) ==
  \E k \in 0..(Len(s) - Len(sub)) : SubSeq(s, k + 1, k + Len(sub)) = sub

\* line 67
path_matches(name, vessel_type, file_date) ==
  contains(name, vessel_type) /\ contains(name, file_date)

\* lines 64-70: the first path that matches; the loop variable keeps the
\* last path of the list when none does
get_ais_path(paths, year, vessel_type, date) ==
  LET file_date == date_stamp(year, date[2])
      hits == { k \in 1..Len(paths) :
                  path_matches(paths[k], vessel_type, file_date) }
  IN IF hits = {} THEN paths[Len(paths)]
     ELSE paths[CHOOSE k \in hits : \A h \in hits : k <= h]

\* lines 87-92: the date in name.split('_')[1].split('-')[0]
get_date(name) ==
  LET date == str_split(str_split(name, "_")[2], "-")[1]
  IN << int(SubSeq(date, 1, 4)), int(SubSeq(date, 5, 6)),
        int(SubSeq(date, 7, 8)) >>

\* the vessel types a run may ask for: the prefixes of the result files and
\* one that has no raster
RequestedTypes ==
  { <<"c", "a", "r", "g", "o">>, <<"t", "a", "n", "k", "e", "r">>,
    <<"f", "i", "s", "h", "i", "n", "g">> }

\* the month whose rasters are absent from ais_dir, 0 when all exist
MissingMonths == {0, 2, 3}

AisInit ==
  /\ pc = "ais"
  /\ raised = ""
  /\ ais_year \in {2012, 2019}
  /\ ais_paths = Unset
  /\ \E m \in MissingMonths :
       on_disk = { p \in { get_ais_paths(ais_year, VESSEL_TYPES)[k] :
                             k \in 1..(12 * Len(VESSEL_TYPES)) } :
                     get_date(p)[2] # m }
  /\ req_vessel_type \in RequestedTypes
  /\ simulation_date \in {2017, 2019} \X (1..12)
  /\ ais_path = Unset
  /\ ais_raster_date = Unset
  /\ OutsideAisUnset

\* lines 37-41: AISSet(ais_dir, year)
NewAISSet ==
  /\ pc = "ais"
  /\ ais_paths' = get_ais_paths(ais_year, VESSEL_TYPES)
  /\ pc' = "ais_set"
  /\ UNCHANGED << raised, outside_ais, ais_year, on_disk, req_vessel_type,
                  simulation_date, ais_path, ais_raster_date >>

\* lines 61-70 (drift_results.py line 417)
GetAisPath ==
  /\ pc = "ais_set"
  /\ ais_path' =
       get_ais_path(ais_paths, ais_year, req_vessel_type, simulation_date)
  /\ pc' = "ais_path"
  /\ UNCHANGED << raised, outside_ais, ais_year, ais_paths, on_disk,
                  req_vessel_type, simulation_date, ais_raster_date >>

\* lines 77-80 (drift_results.py line 418): AIS(ais_path); rasterio.open
\* raises when the file does not exist
OpenAIS ==
  /\ pc = "ais_path"
  /\ IF ais_path \in on_disk
     THEN /\ ais_raster_date' = get_date(ais_path)
          /\ pc' = "ais_open"
          /\ raised' = raised
     ELSE /\ ais_raster_date' = ais_raster_date
          /\ pc' = "raised"
          /\ raised' = "RasterioIOError"
  /\ UNCHANGED << outside_ais, ais_year, ais_paths, on_disk,
                  req_vessel_type, simulation_date, ais_path >>

AisNext == NewAISSet \/ GetAisPath \/ OpenAIS

AisSpec == AisInit /\ [][AisNext]_vars

\* the vessel type in a raster name: the text before the first '_'
RasterType(name) == str_split(name, "_")[1]

\* the raster name is of the requested vessel type and of the month of the
\* simulation date in the year of the AISSet
IsRequiredRaster(name) ==
  /\ contains(RasterType(name), req_vessel_type)
  /\ get_date(name) = << ais_year, simulation_date[2], 1 >>

\* C16: get_ais_path returns a raster of the requested vessel type and of
\* the month of the simulation date, never one of another month or vessel
\* type, and when no such raster exists in the directory the run ends with
\* an exception.
NoSubstituteRaster ==
  /\ pc \in {"ais_path", "ais_open", "raised"} => IsRequiredRaster(ais_path)
  /\ pc \in {"ais_open", "raised"} =>
       ((~\E p \in on_disk : IsRequiredRaster(p)) => raised # "")

\* the end date in a raster name
EndDate(name) ==
  LET date == str_split(str_split(name, "_")[2], "-")[2]
  IN << int(SubSeq(date, 1, 4)), int(SubSeq(date, 5, 6)),
        int(SubSeq(date, 7, 8)) >>

TypesOfSet == { VESSEL_TYPES[k] : k \in 1..Len(VESSEL_TYPES) }

\* C17: the AISSet holds 12 paths per vessel type, all distinct, one per
\* vessel type and month, the December one ending on January 1 of the next
\* year; for a vessel type of the set get_ais_path returns the path of that
\* vessel type whose interval starts on the first day of the month of the
\* simulation date in the year of the AISSet.
AisPathIsMonthFile ==
  /\ pc # "ais" =>
       /\ Len(ais_paths) = 12 * Len(VESSEL_TYPES)
       /\ \A i, j \in 1..Len(ais_paths) : ais_paths[i] = ais_paths[j] => i = j
       /\ \A k \in 1..Len(ais_paths) :
            /\ RasterType(ais_paths[k]) \in TypesOfSet
            /\ get_date(ais_paths[k])[1] = ais_year
            /\ get_date(ais_paths[k])[2] \in 1..12
            /\ get_date(ais_paths[k])[3] = 1
       /\ Cardinality({ << RasterType(ais_paths[k]), get_date(ais_paths[k]) >> :
                          k \in 1..Len(ais_paths) })
            = 12 * Len(VESSEL_TYPES)
       /\ \A k \in 1..Len(ais_paths) :
            get_date(ais_paths[k])[2] = 12 =>
              EndDate(ais_paths[k]) = << ais_year + 1, 1, 1 >>
  /\ pc \in {"ais_path", "ais_open", "raised"} =>
       ((\E t \in TypesOfSet : contains(t, req_vessel_type)) =>
          /\ \E k \in 1..Len(ais_paths) : ais_paths[k] = ais_path
          /\ IsRequiredRaster(ais_path))

(***************************************************************************)
(* drift_results.py / spill_results.py: the results sets, and              *)
(* calculate_drift_hazard.py: calculate_hazard.                            *)
(***************************************************************************)
NFiles == 2

Cargo == <<"c", "a", "r", "g", "o">>
Tanker == <<"t", "a", "n", "k", "e", "r">>

\* <vessel-type>_alaska_drift_<date>.nc
drift_name(vessel_type, date) ==
  vessel_type \o <<"_", "a", "l", "a", "s", "k", "a", "_", "d", "r", "i", "f", "t", "_">> \o date \o <<".", "n", "c">>

\* oilspill_<vessel-type>_<date>.nc
spill_name(vessel_type, date) ==
  <<"o", "i", "l", "s", "p", "i", "l", "l", "_">> \o vessel_type \o <<"_">> \o date \o <<".", "n", "c">>

Jan03 == <<"2", "0", "1", "9", "-", "0", "1", "-", "0", "3">>
Feb17 == <<"2", "0", "1", "9", "-", "0", "2", "-", "1", "7">>

\* result files of drift runs: the name, the start date stored in the file
\* and the number of rows of the per-run table.  The last two have names
\* that carry no date or no date of the calendar.
DriftFiles ==
  { [name |-> drift_name(Cargo, Jan03), start_date |-> <<2019, 1, 3>>, nrows |-> 1],
    [name |-> drift_name(Cargo, Feb17), start_date |-> <<2019, 2, 17>>, nrows |-> 2],
    [name |-> drift_name(Tanker, Jan03), start_date |-> <<2019, 1, 3>>, nrows |-> 1],
    [name |-> drift_name(Tanker, Feb17), start_date |-> <<2019, 2, 17>>, nrows |-> 2],
    [name |-> Tanker \o <<"_", "a", "l", "a", "s", "k", "a", "_", "d", "r", "i", "f", "t", ".", "n", "c">>, start_date |-> <<2019, 1, 3>>, nrows |-> 1],
    [name |-> drift_name(Cargo, <<"2", "0", "1", "9", "-", "1", "3", "-", "0", "1">>), start_date |-> <<2019, 1, 3>>, nrows |-> 1] }

\* result files of spill runs
SpillFiles ==
  { [name |-> spill_name(Cargo, Jan03), start_date |-> <<2019, 1, 3>>, nrows |-> 1],
    [name |-> spill_name(Cargo, Feb17), start_date |-> <<2019, 2, 17>>, nrows |-> 2],
    [name |-> spill_name(Tanker, Jan03), start_date |-> <<2019, 1, 3>>, nrows |-> 1],
    [name |-> spill_name(Tanker, Feb17), start_date |-> <<2019, 2, 17>>, nrows |-> 2] }

\* sorted(paths) for a set of files
sorted(files) ==
  [i \in 1..Cardinality(files) |->
     CHOOSE f \in files :
       Cardinality({ h \in files : StrLT(h.name, f.name) }) = i - 1]

\* the directories of the model: up to NFiles result files
Directories(files) ==
  { sorted(d) : d \in { s \in SUBSET files :
                          s # {} /\ Cardinality(s) <= NFiles } }

\* name.split('.')[0].split('_')
name_tokens(name) == str_split(str_split(name, ".")[1], "_")

\* get_vessel_type: the first token of a drift name (drift_results.py line
\* 447), the second of a spill name (spill_results.py line 278)
get_vessel_type(kind, name) ==
  IF kind = "drift" THEN name_tokens(name)[1] ELSE name_tokens(name)[2]

\* what get_sim_start_date gives when date.fromisoformat raises ValueError
NoDate == << 0, 0, 0 >>

\* the text is YYYY-MM-DD and a date of the calendar
is_iso_date(s) ==
  /\ Len(s) = 10
  /\ s[5] = "-" /\ s[8] = "-"
  /\ isnumeric(SubSeq(s, 1, 4)) /\ isnumeric(SubSeq(s, 6, 7))
  /\ isnumeric(SubSeq(s, 9, 10))
  /\ int(SubSeq(s, 1, 4)) >= 1
  /\ int(SubSeq(s, 6, 7)) \in 1..12
  /\ int(SubSeq(s, 9, 10)) >= 1
  /\ int(SubSeq(s, 9, 10))
       <= monthrange(int(SubSeq(s, 1, 4)), int(SubSeq(s, 6, 7)))

\* get_sim_start_date that takes January 1 where the name has no date
get_sim_start_date_or_default(name) ==
  LET start_date == name_tokens(name)[Len(name_tokens(name))]
  IN IF is_iso_date(start_date)
     THEN << int(SubSeq(start_date, 1, 4)), int(SubSeq(start_date, 6, 7)),
             int(SubSeq(start_date, 9, 10)) >>
     ELSE << 2019, 1, 1 >>

\* drift_results.py lines 452-472: the date in the last token of the name,
\* NoDate where fromisoformat raises
get_sim_start_date(name) ==
  LET start_date == name_tokens(name)[Len(name_tokens(name))]
  IN IF is_iso_date(start_date)
     THEN << int(SubSeq(start_date, 1, 4)), int(SubSeq(start_date, 6, 7)),
             int(SubSeq(start_date, 9, 10)) >>
     ELSE NoDate

\* a filter that keeps every path
is_any_path(kind, name, vessel_type) == TRUE

\* drift_results.py line 412: p.name.startswith(vessel_type);
\* spill_results.py line 248: vessel_type in str(p.name)
is_vessel_specific(kind, name, vessel_type) ==
  IF kind = "drift"
  THEN /\ Len(vessel_type) <= Len(name)
       /\ SubSeq(name, 1, Len(vessel_type)) = vessel_type
  ELSE contains(name, vessel_type)

\* the paths load_results keeps
vessel_specific_paths(kind, paths, vessel_type) ==
  LET keep(f) == is_vessel_specific(kind, f.name, vessel_type)
  IN SelectSeq(paths, keep)

\* the per-run table with its date and vessel_type columns (drift lines
\* 420-424, spill lines 251-255)
run_table(file, vessel_type) ==
  [p \in 1..file.nrows |->
     [path |-> file.name, row |-> p, date |-> file.start_date,
      vessel_type |-> vessel_type]]

RECURSIVE concat(_)
\* pd.concat(tables, ignore_index=True)
concat(tables) ==
  IF Len(tables) = 0 THEN << >> ELSE Head(tables) \o concat(Tail(tables))

LoadInit ==
  /\ pc = "hazard_start"
  /\ raised = ""
  /\ result_kind \in {"drift", "spill"}
  /\ result_paths \in Directories(IF result_kind = "drift" THEN DriftFiles
                                  ELSE SpillFiles)
  /\ pending_types = Unset
  /\ load_vessel_type = Unset
  /\ specific_paths = Unset
  /\ results = Unset
  /\ loaded = << >>
  /\ hazard = Unset
  /\ OutsideLoadUnset

\* calculate_hazard line 26
FindVesselTypes ==
  /\ pc = "hazard_start"
  /\ pending_types' =
       { get_vessel_type(result_kind, result_paths[i].name) :
           i \in 1..Len(result_paths) }
  /\ pc' = "hazard"
  /\ UNCHANGED << raised, outside_load, result_kind, result_paths,
                  load_vessel_type, specific_paths, results, loaded, hazard >>

\* calculate_hazard lines 29-31, the set taken in any order, and the start
\* of load_results (drift lines 412-413, spill lines 248-249)
StartLoadResults ==
  /\ pc = "hazard"
  /\ \E vessel_type \in pending_types :
       /\ load_vessel_type' = vessel_type
       /\ pending_types' = pending_types \ {vessel_type}
       /\ specific_paths' =
            vessel_specific_paths(result_kind, result_paths, vessel_type)
  /\ results' = << >>
  /\ pc' = "load"
  /\ UNCHANGED << raised, outside_load, result_kind, result_paths, loaded,
                  hazard >>

\* one pass of the loop of load_results (drift lines 414-425, spill lines
\* 250-256); the rasters of the AISSet are all present
LoadRun ==
  /\ pc = "load"
  /\ Len(results) < Len(specific_paths)
  /\ LET file == specific_paths[Len(results) + 1]
     IN IF result_kind = "drift" /\ get_sim_start_date(file.name) = NoDate
        THEN /\ pc' = "raised"
             /\ raised' = "ValueError"
             /\ results' = results
        ELSE /\ results' = Append(results, run_table(file, load_vessel_type))
             /\ pc' = pc
             /\ raised' = raised
  /\ UNCHANGED << outside_load, result_kind, result_paths, pending_types,
                  load_vessel_type, specific_paths, loaded, hazard >>

\* the return of load_results (drift line 427, spill line 258)
ConcatRuns ==
  /\ pc = "load"
  /\ Len(results) = Len(specific_paths)
  /\ IF Len(results) = 0
     THEN /\ pc' = "raised"
          /\ raised' = "ValueError"
          /\ loaded' = loaded
     ELSE /\ loaded' = Append(loaded, [vessel_type |-> load_vessel_type,
                                       data |-> concat(results)])
          /\ pc' = "hazard"
          /\ raised' = raised
  /\ UNCHANGED << outside_load, result_kind, result_paths, pending_types,
                  load_vessel_type, specific_paths, results, hazard >>

\* calculate_hazard line 33
ConcatHazard ==
  /\ pc = "hazard"
  /\ pending_types = {}
  /\ hazard' = concat([i \in 1..Len(loaded) |-> loaded[i].data])
  /\ pc' = "hazard_done"
  /\ UNCHANGED << raised, outside_load, result_kind, result_paths,
                  pending_types, load_vessel_type, specific_paths, results,
                  loaded >>

LoadNext ==
  FindVesselTypes \/ StartLoadResults \/ LoadRun \/ ConcatRuns
    \/ ConcatHazard

LoadSpec == LoadInit /\ [][LoadNext]_vars

\* the result files of the directory whose name carries the vessel type
FilesOfType(vessel_type) ==
  { i \in 1..Len(result_paths) :
      get_vessel_type(result_kind, result_paths[i].name) = vessel_type }

FileNamed(name) ==
  CHOOSE i \in 1..Len(result_paths) : result_paths[i].name = name

\* C18: the table load_results returns for a vessel type holds the rows of
\* the per-run tables of exactly the result files named for that vessel
\* type, each row with the start date of its run and the requested vessel
\* type, so that its length is the sum of the per-run row counts; the table
\* of calculate_hazard holds every row of every result file exactly once.
LoadedOnce ==
  /\ \A k \in 1..Len(loaded) :
       LET data == loaded[k].data
           vt == loaded[k].vessel_type
       IN /\ { data[j].path : j \in 1..Len(data) }
               = { result_paths[i].name : i \in FilesOfType(vt) }
          /\ \A j \in 1..Len(data) :
               /\ data[j].vessel_type = vt
               /\ data[j].date = result_paths[FileNamed(data[j].path)].start_date
          /\ Len(data)
               = IntSum([i \in 1..Len(result_paths) |-> result_paths[i].nrows],
                        FilesOfType(vt))
  /\ pc = "hazard_done" =>
       \A i \in 1..Len(result_paths) :
         \A p \in 1..result_paths[i].nrows :
           Cardinality({ j \in 1..Len(hazard) :
                           /\ hazard[j].path = result_paths[i].name
                           /\ hazard[j].row = p }) = 1

\* calculate_hazard has returned the table of a directory with result files
\* of two vessel types
TwoVesselTypesLoaded ==
  /\ pc = "hazard_done"
  /\ Len(loaded) = 2
  /\ Len(hazard) >= 2

\* the last token of the name is a date
NameHasDate(name) == is_iso_date(name_tokens(name)[Len(name_tokens(name))])

\* C19: DriftResultsSet.load_results returns no table for a vessel type one
\* of whose result files has a name without a start date: it never reaches
\* its return with such a file among its paths, and after the ValueError
\* neither a table for that vessel type nor the combined table exists.
MalformedNameFailsLoad ==
  result_kind = "drift" =>
    /\ \A k \in 1..Len(loaded) :
         \A i \in 1..Len(result_paths) :
           is_vessel_specific("drift", result_paths[i].name,
                              loaded[k].vessel_type)
             => NameHasDate(result_paths[i].name)
    /\ pc = "load" =>
         \A j \in 1..Len(results) :
           \A i \in 1..Len(specific_paths) :
             i <= j => NameHasDate(specific_paths[i].name)
    /\ pc = "raised" =>
         /\ hazard = Unset
         /\ \A k \in 1..Len(loaded) :
              loaded[k].vessel_type # load_vessel_type

\* load_results raised at a name without a date after it had built the
\* per-run table of another file of the vessel type
RaisedAfterGoodFile ==
  /\ result_kind = "drift"
  /\ pc = "raised"
  /\ raised = "ValueError"
  /\ Len(results) >= 1

\* a missing value (None) in a column of strings, distinct from any string
NullStr == << "null" >>

\* C20: in the table of a finished drift run a particle that never stranded
\* has a missing esi_id and a missing region, and a stranded particle has
\* the region that is the part of its esi_id before the first '-'.
NeverStrandedIsNull ==
  pc = "done" =>
    \A p \in Particles :
      IF EverStranded(p)
      THEN drift_data[p].region = RegionOf(drift_data[p].esi_id)
      ELSE /\ drift_data[p].esi_id = NullStr
           /\ drift_data[p].region = NullStr

NSegments == 2

\* the esi column of the ESI table: str(esi) of a missing value, codes with
\* and without a letter, a pair of codes, and codes the table may hold by
\* mistake
EsiStrings ==
  { NoneStr, << "9" >>, << "7", "A" >>, << "3", "/", "8", "B" >>,
    << "0" >>, << "1", "1" >>, << "1", "2", "A" >>,
    << "1", "0", "A", "B" >>, << "6", "B", "C" >> }

\* geometry column: a LineString, or a MultiLineString of two lines, as the
\* sequence of its lines, each the sequence of its vertices
Geometries ==
  { << << <<0, 55>>, <<1, 55>> >> >>,
    << << <<0, 57>>, <<1, 57>> >>,
       << <<2, 58>>, <<3, 58>>, <<4, 58>> >> >> }

\* the geometry g of segment i: the segments lie 10 degrees apart
place(g, i) ==
  [j \in 1..Len(g) |->
     [v \in 1..Len(g[j]) |-> << g[j][v][1] - 10 * i, g[j][v][2] >>]]

\* the esi_id of segment i
segment_id(i) == << "w", "-", Digits[i + 1] >>

\* the ESI tables of the model
EsiFrames ==
  { [i \in 1..NSegments |->
       [esi_id |-> segment_id(i), esi |-> e[i], geometry |-> place(g[i], i)]] :
      e \in [1..NSegments -> EsiStrings], g \in [1..NSegments -> Geometries] }

RECURSIVE explode_first_parts(_, _)
\* explode keeping the first line of every geometry only
explode_first_parts(gdf, i) ==
  IF i > Len(gdf) THEN << >>
  ELSE << [ix |-> << i - 1, 0 >>, esi_id |-> gdf[i].esi_id,
           esi |-> gdf[i].esi, geometry |-> gdf[i].geometry[1]] >>
         \o explode_first_parts(gdf, i + 1)

RECURSIVE explode(_, _)
\* esi.explode() from row i on: one row per line of each geometry, indexed
\* by (row of the table, part), the other columns repeated
explode(gdf, i) ==
  IF i > Len(gdf) THEN << >>
  ELSE [j \in 1..Len(gdf[i].geometry) |->
          [ix |-> << i - 1, j - 1 >>, esi_id |-> gdf[i].esi_id,
           esi |-> gdf[i].esi, geometry |-> gdf[i].geometry[j]]]
         \o explode(gdf, i + 1)

RECURSIVE get_npoints(_, _)
\* get_npoints: the loop over gdf.iterrows() from row k on
get_npoints(gdf, k) ==
  IF k > Len(gdf) THEN 0 ELSE Len(gdf[k].geometry) + get_npoints(gdf, k + 1)

\* arr[start_ix:end_ix] = vals, vals[o] the value for the o-th element of
\* the slice
set_slice(arr, start, end, vals) ==
  [k \in DOMAIN arr |->
     IF start < k /\ k <= end THEN vals[k - start] ELSE arr[k]]

EsiInit ==
  /\ pc = "esi_to_locs"
  /\ raised = ""
  /\ esi_frame \in EsiFrames
  /\ esi_exploded = Unset
  /\ row_ix = Unset
  /\ start_ix = Unset
  /\ lons = Unset
  /\ lats = Unset
  /\ loc_esi_ids = Unset
  /\ esi_codes = Unset
  /\ esi_rows = Unset
  /\ locs_df = Unset
  /\ OutsideEsiUnset

\* lines 118-131: explode, count the points and allocate the arrays;
\* np.empty leaves esi_ids with whatever the memory holds
ExplodeEsi ==
  /\ pc = "esi_to_locs"
  /\ esi_exploded' = explode(esi_frame, 1)
  /\ LET npoints == get_npoints(esi_exploded', 1)
     IN /\ lons' = [k \in 1..npoints |-> 0]
        /\ lats' = [k \in 1..npoints |-> 0]
        /\ \E u \in { Empty, W1 } : loc_esi_ids' = [k \in 1..npoints |-> u]
        /\ esi_codes' = [k \in 1..npoints |-> 0]
        /\ esi_rows' = [k \in 1..npoints |-> 0]
  /\ start_ix' = 0
  /\ row_ix' = 1
  /\ pc' = "esi_loop"
  /\ UNCHANGED << raised, outside_esi, esi_frame, locs_df >>

\* lines 132-146: one pass of the loop over esi_exploded.iterrows()
FillLine ==
  /\ pc = "esi_loop"
  /\ row_ix <= Len(esi_exploded)
  /\ LET row == esi_exploded[row_ix]
         line_locs == row.geometry
         end_ix == start_ix + Len(line_locs)
     IN IF clean_esi_raises(row.esi)
        THEN \* int() of a text that is no numeral
             /\ pc' = "raised"
             /\ raised' = "ValueError"
             /\ UNCHANGED << lons, lats, loc_esi_ids, esi_codes, esi_rows,
                             start_ix, row_ix >>
        ELSE /\ lons' = set_slice(lons, start_ix, end_ix,
                                  [o \in DOMAIN line_locs |-> line_locs[o][1]])
             /\ lats' = set_slice(lats, start_ix, end_ix,
                                  [o \in DOMAIN line_locs |-> line_locs[o][2]])
             /\ loc_esi_ids' = set_slice(loc_esi_ids, start_ix, end_ix,
                                         [o \in DOMAIN line_locs |->
                                            AsU15(row.esi_id)])
             /\ esi_codes' = set_slice(esi_codes, start_ix, end_ix,
                                       [o \in DOMAIN line_locs |->
                                          clean_esi_string(row.esi)])
             /\ esi_rows' = set_slice(esi_rows, start_ix, end_ix,
                                      [o \in DOMAIN line_locs |-> row.ix[1]])
             /\ start_ix' = end_ix
             /\ row_ix' = row_ix + 1
             /\ UNCHANGED << pc, raised >>
  /\ UNCHANGED << outside_esi, esi_frame, esi_exploded, locs_df >>

\* lines 149-158: the arrays as the columns of a DataFrame
MakeLocs ==
  /\ pc = "esi_loop"
  /\ row_ix > Len(esi_exploded)
  /\ locs_df' =
       [k \in DOMAIN lons |->
          [lon |-> lons[k], lat |-> lats[k], esi_id |-> loc_esi_ids[k],
           esi_code |-> esi_codes[k], esi_row |-> esi_rows[k]]]
  /\ pc' = "locs_done"
  /\ UNCHANGED << raised, outside_esi, esi_frame, esi_exploded, row_ix,
                  start_ix, lons, lats, loc_esi_ids, esi_codes, esi_rows >>

EsiNext == ExplodeEsi \/ FillLine \/ MakeLocs

EsiSpec == EsiInit /\ [][EsiNext]_vars

(***************************************************************************)
(* Properties of the point catalog of esi_to_locs.                         *)
(***************************************************************************)
IsDigit(c) == \E d \in 1..10 : Digits[d] = c

\* the number of digits a text starts with
LeadingDigits(part) ==
  Cardinality({ n \in 1..Len(part) : \A i \in 1..n : IsDigit(part[i]) })

\* the numeral a part starts with, 5 for the missing sentinel
PartNumeral(part) ==
  IF part = NoneStr THEN 5 ELSE int(SubSeq(part, 1, LeadingDigits(part)))

\* the missing sentinel, or a numeral with at most one character after it
OneLetterPart(part) ==
  \/ part = NoneStr
  \/ LeadingDigits(part) >= 1 /\ Len(part) <= LeadingDigits(part) + 1

\* the largest numeral among the parts of a sensitivity string
MaxNumeral(esi) ==
  LET parts == str_split(esi, "/")
      vals == { PartNumeral(parts[i]) : i \in 1..Len(parts) }
  IN CHOOSE v \in vals : \A w \in vals : w <= v

\* the row of the ESI table a catalog point was made from
SourceRow(k) == esi_frame[locs_df[k].esi_row + 1]

\* C22: every catalog point of a segment whose sensitivity string is made
\* of '/'-separated parts, each "None" or a numeral with at most one letter
\* after it, carries the largest numeral of the parts with "None" read as 5
\* ("None" gives 5, "7A" gives 7, "3/8B" gives 8), and two points made from
\* the same string carry the same code.
CleanedCodeIsMaxNumeral ==
  pc = "locs_done" =>
    /\ \A k \in DOMAIN locs_df :
         LET esi == SourceRow(k).esi
         IN /\ locs_df[k].esi_code = MaxNumeral(esi)
            /\ esi = NoneStr => locs_df[k].esi_code = 5
            /\ esi = << "7", "A" >> => locs_df[k].esi_code = 7
            /\ esi = << "3", "/", "8", "B" >> => locs_df[k].esi_code = 8
    /\ \A k \in DOMAIN locs_df : \A m \in DOMAIN locs_df :
         SourceRow(k).esi = SourceRow(m).esi
           => locs_df[k].esi_code = locs_df[m].esi_code

\* a finished catalog made from the strings "None" and "3/8B"
NoneAndPairCleaned ==
  /\ pc = "locs_done"
  /\ \E k \in DOMAIN locs_df : SourceRow(k).esi = NoneStr
  /\ \E k \in DOMAIN locs_df : SourceRow(k).esi = << "3", "/", "8", "B" >>

\* C23: every sensitivity code of the catalog lies in [1, 10]: a string
\* whose numeral is outside the range makes clean_esi_string fail, so no
\* finished catalog has a point made from such a string.
CodesInRange ==
  pc = "locs_done" =>
    \A k \in DOMAIN locs_df :
      /\ locs_df[k].esi_code \in 1..10
      /\ MaxNumeral(SourceRow(k).esi) \in 1..10

\* a numeral followed by one or more characters that are no digits
NumeralWithSuffix(part) ==
  LeadingDigits(part) >= 1 /\ LeadingDigits(part) < Len(part)
    /\ \A i \in (LeadingDigits(part) + 1)..Len(part) : ~IsDigit(part[i])

\* C24: the conversion of a one-part string made of a numeral followed by
\* one or more non-numeric characters does not fail, and the points made
\* from such a string carry the leading numeral.
AllSuffixCharactersStripped ==
  /\ pc = "raised" => ~NumeralWithSuffix(esi_exploded[row_ix].esi)
  /\ pc = "locs_done" =>
       \A k \in DOMAIN locs_df :
         NumeralWithSuffix(SourceRow(k).esi)
           => locs_df[k].esi_code = PartNumeral(SourceRow(k).esi)

\* the lines of a geometry
Lines(i) == 1..Len(esi_frame[i].geometry)

\* the number of vertices of the ESI table
RECURSIVE VertexCount(_, _)
VertexCount(i, j) ==
  IF i > Len(esi_frame) THEN 0
  ELSE IF j > Len(esi_frame[i].geometry) THEN VertexCount(i + 1, 1)
  ELSE Len(esi_frame[i].geometry[j]) + VertexCount(i, j + 1)

\* the catalog points made from vertex v of line j of segment i
PointsOf(i, j, v) ==
  { k \in DOMAIN locs_df :
      /\ locs_df[k].esi_row = i - 1
      /\ locs_df[k].lon = esi_frame[i].geometry[j][v][1]
      /\ locs_df[k].lat = esi_frame[i].geometry[j][v][2] }

NLons == 2

\* the longitudes of the model: whole degrees, and the floats next to 180,
\* 0 and 200
Longitudes ==
  { <<0, 0>>, <<0, 1>>, <<90, 0>>, <<180, -1>>, <<180, 0>>, <<180, 1>>,
    <<200, -1>>, <<200, 0>>, <<256, -1>>, <<300, 2>>, <<359, 0>>,
    <<360, 0>> }

\* a < 0
f_negative(a) == a[1] < 0 \/ (a[1] = 0 /\ a[2] < 0)

\* round to nearest, ties to the even mantissa: a value from 256 on is
\* rounded to a multiple of 2 * ulp, a tie to a multiple of 4 * ulp
f_round(a) ==
  IF a[1] > 256 \/ (a[1] = 256 /\ a[2] >= 0)
  THEN << a[1],
          IF a[2] % 2 = 0 THEN a[2]
          ELSE IF (a[2] - 1) % 4 = 0 THEN a[2] - 1 ELSE a[2] + 1 >>
  ELSE a

\* a + n for a whole number n, rounded to the float type
f_add(a, n) == f_round(<< a[1] + n, a[2] >>)

\* np.mod(a, n) for -n < a <= n: fmod(a, n), which is exact and has the
\* sign of a, then n added to a negative remainder
np_mod(a, n) ==
  LET mod == IF a[1] >= n THEN << a[1] - n, a[2] >> ELSE a
  IN IF f_negative(mod) THEN f_add(mod, n) ELSE mod

\* lon360_to_lon180 on one element of a float array
lon360_to_lon180_float(lon) == f_add(np_mod(f_add(lon, -180), 360), -180)

LonInit ==
  /\ pc = "lons"
  /\ raised = ""
  /\ ds_lon \in [1..NLons -> Longitudes]
  /\ converted_lon = Unset
  /\ OutsideLonUnset

\* lons = utils.lon360_to_lon180(lons)
ConvertLon ==
  /\ pc = "lons"
  /\ converted_lon' = [i \in DOMAIN ds_lon |-> lon360_to_lon180_float(ds_lon[i])]
  /\ pc' = "lons_converted"
  /\ UNCHANGED << raised, outside_lon, ds_lon >>

LonNext == ConvertLon

LonSpec == LonInit /\ [][LonNext]_vars

\* -180 <= a < 180
InLon180(a) ==
  /\ a[1] > -180 \/ (a[1] = -180 /\ a[2] >= 0)
  /\ a[1] < 180 \/ (a[1] = 180 /\ a[2] < 0)

\* a - b is a whole multiple of 360
Congruent360(a, b) == a[2] = b[2] /\ (a[1] - b[1]) % 360 = 0

\* C25: every converted longitude lies in [-180, 180), is congruent to the
\* longitude it was made from modulo 360, and is left as it is by a second
\* conversion; 200 gives -160, 360 gives 0 and 180 gives -180.
ConvertedLonInRange ==
  pc = "lons_converted" =>
    \A i \in DOMAIN ds_lon :
      /\ InLon180(converted_lon[i])
      /\ Congruent360(converted_lon[i], ds_lon[i])
      /\ lon360_to_lon180_float(converted_lon[i]) = converted_lon[i]
      /\ ds_lon[i] = <<200, 0>> => converted_lon[i] = <<-160, 0>>
      /\ ds_lon[i] = <<360, 0>> => converted_lon[i] = <<0, 0>>
      /\ ds_lon[i] = <<180, 0>> => converted_lon[i] = <<-180, 0>>

(***************************************************************************)
(* launch_drift.py and launch_oilspills.py: run_simulations.              *)
(* Dates are days of the year 2019 (1 is January 1).                       *)
(***************************************************************************)
\* days=7, the step between two start dates
days == 7

\* datetime.datetime(2019, 12, 5) and (2019, 12, 18) of launch_drift.py
drift_start_date == 339
drift_last_date == 352

\* datetime.datetime(2019, 1, 17) and (2019, 12, 10) of launch_oilspills.py
oil_start_date == 17
oil_last_date == 344

\* vessel_types of run_sims_for_date in launch_drift.py
drift_vessel_types == << "cargo", "other", "passenger", "tanker" >>

\* VESSEL_TYPES of launch_oilspills.py, the default vessel_types
oil_vessel_types == << "tanker", "passenger", "other", "cargo" >>

launch_vessel_types ==
  IF launcher = "drift" THEN drift_vessel_types ELSE oil_vessel_types

start_date(script) ==
  IF script = "drift" THEN drift_start_date ELSE oil_start_date

last_date(script) ==
  IF script = "drift" THEN drift_last_date ELSE oil_last_date

LaunchInit ==
  /\ pc = "launch"
  /\ raised = ""
  /\ launcher \in { "drift", "oilspills" }
  /\ launch_date = start_date(launcher)
  /\ launch_vessel_ix = 1
  /\ attempted = {}
  /\ warnings = 0
  /\ OutsideLaunchUnset

\* launch_drift.py: one pass of the loop over vessel_types in
\* run_sims_for_date, called inside the try of run_simulations.  A pass that
\* raises (no AIS file, a failing simulation) leaves run_sims_for_date; the
\* except clause of run_simulations logs it and the date advances.
RunDriftSim ==
  /\ pc = "launch"
  /\ launcher = "drift"
  /\ launch_date <= last_date(launcher)
  /\ attempted' =
       attempted \cup { << launch_date, launch_vessel_types[launch_vessel_ix] >> }
  /\ \E raises \in BOOLEAN :
       IF raises
       THEN /\ warnings' = warnings + 1
            /\ launch_vessel_ix' = 1
            /\ launch_date' = launch_date + days
       ELSE IF launch_vessel_ix < Len(launch_vessel_types)
       THEN /\ launch_vessel_ix' = launch_vessel_ix + 1
            /\ UNCHANGED << warnings, launch_date >>
       ELSE /\ launch_vessel_ix' = 1
            /\ launch_date' = launch_date + days
            /\ UNCHANGED warnings
  /\ UNCHANGED << pc, raised, outside_launch, launcher >>

\* launch_oilspills.py: one pass of the loop over vessel_types, with its
\* own try and except; the date advances after the last vessel type
RunOilSim ==
  /\ pc = "launch"
  /\ launcher = "oilspills"
  /\ launch_date <= last_date(launcher)
  /\ attempted' =
       attempted \cup { << launch_date, launch_vessel_types[launch_vessel_ix] >> }
  /\ \E raises \in BOOLEAN :
       warnings' = IF raises THEN warnings + 1 ELSE warnings
  /\ IF launch_vessel_ix < Len(launch_vessel_types)
     THEN /\ launch_vessel_ix' = launch_vessel_ix + 1
          /\ UNCHANGED launch_date
     ELSE /\ launch_vessel_ix' = 1
          /\ launch_date' = launch_date + days
  /\ UNCHANGED << pc, raised, outside_launch, launcher >>

\* while date <= last_date is false: the total time is logged
FinishLaunch ==
  /\ pc = "launch"
  /\ launch_date > last_date(launcher)
  /\ pc' = "launch_done"
  /\ UNCHANGED << raised, outside_launch, launch_vars >>

LaunchNext == RunDriftSim \/ RunOilSim \/ FinishLaunch

LaunchSpec == LaunchInit /\ [][LaunchNext]_vars

\* the loops are sequential code that runs on while it is not finished
LaunchFairSpec == LaunchSpec /\ WF_vars(LaunchNext)

\* the start dates of a batch
BatchDates ==
  { d \in start_date(launcher)..last_date(launcher) :
      (d - start_date(launcher)) % days = 0 }

\* the runs of a batch
BatchRuns ==
  { << d, launch_vessel_types[i] >> :
      d \in BatchDates, i \in DOMAIN launch_vessel_types }

\* C27: a batch that has ended has attempted every (start date, vessel
\* type) run, whatever number of runs raised, and it has logged a warning
\* for no more runs than it attempted.
EveryRunAttempted ==
  /\ warnings <= Cardinality(attempted)
  /\ pc = "launch_done" => attempted = BatchRuns

\* every batch ends
BatchEnds == <>(pc = "launch_done")

(***************************************************************************)
(* Particles with the stranded status at several time steps.               *)
(***************************************************************************)
\* the first time step at which a stranded particle has the stranded status
FirstStranded(p) ==
  CHOOSE t \in Times :
    StrandedAt(p, t) /\ \A u \in Times : StrandedAt(p, u) => t <= u

\* C28: in a finished drift run every stranded particle, also one with the
\* stranded status at several time steps, has the segment and the breach
\* probability of its position at the first time step with that status.
FirstStrandingStepUsed ==
  pc = "done" =>
    \A p \in StrandedParticles :
      /\ drift_data[p].esi_id = SegmentAt(p, FirstStranded(p))
      /\ drift_data[p].breach_prob = BreachProbAt(p, FirstStranded(p))

(***************************************************************************)
(* The combined table and the order of the rows it is made from.           *)
(***************************************************************************)
\* the table df with rows i and j exchanged
Swapped(df, i, j) ==
  [k \in DOMAIN df |-> IF k = i THEN df[j] ELSE IF k = j THEN df[i] ELSE df[k]]

\* the combined table made from a drift and a spill table
CombinedFrom(d, s) ==
  LET joined == join(group_drift(d), group_spill(s))
      total == [k \in DOMAIN joined |-> [hz_s |-> hz_s(joined[k])] @@ joined[k]]
  IN clean_and_fill(merge(total, esi_gdf))

\* C29: the combined table has the same keys and the same values as the
\* table combined from the drift rows, or the spill rows, with any two rows
\* exchanged, and so from the rows in any order.
RowOrderIrrelevant ==
  pc = "combined" =>
    /\ \A i \in DOMAIN drift_df : \A j \in DOMAIN drift_df :
         i < j => CombinedFrom(Swapped(drift_df, i, j), spill_df)
                    = total_hazard_with_esi
    /\ \A i \in DOMAIN spill_df : \A j \in DOMAIN spill_df :
         i < j => CombinedFrom(drift_df, Swapped(spill_df, i, j))
                    = total_hazard_with_esi

\* a combined table with a row made from two drift rows of different
\* values, from spill tables of two rows of different keys
UnequalRowsOfOneKey ==
  /\ pc = "combined"
  /\ \E i \in DOMAIN drift_df : \E j \in DOMAIN drift_df :
       /\ i < j
       /\ KeyOf(drift_df[i]) = KeyOf(drift_df[j])
       /\ drift_df[i] # drift_df[j]
       /\ KeyOf(drift_df[i]) \in DOMAIN total_hazard_with_esi
       /\ \E m \in DOMAIN spill_df : \E n \in DOMAIN spill_df :
            /\ m < n
            /\ KeyOf(spill_df[m]) = KeyOf(drift_df[i])
            /\ KeyOf(spill_df[n]) # KeyOf(drift_df[i])

(***************************************************************************)
(* create-grs-normalized-portal-files.py: normalize_by_grs.                *)
(***************************************************************************)
NGrsRows == 2

\* rows of a portal file: the region and the three metrics of a segment
GrsRows ==
  { [region |-> r, breach_hazard |-> v[1], spill_hazard |-> v[2],
     spill_risk |-> v[3]] :
      r \in { "w", "se" },
      v \in { << Rat(1, 2), Rat(1, 4), Rat(1, 8) >>,
              << One, Rat(2, 1), Rat(3, 1) >>,
              << Rat(1, 4), Rat(1, 2), Zero >>,
              << Zero, Zero, Zero >> } }

RECURSIVE unique(_, _)
\* gdf.region.unique(): the regions in the order of their first row, from
\* row k on
unique(df, k) ==
  IF k > Len(df) THEN << >>
  ELSE (IF \E j \in 1..(k - 1) : df[j].region = df[k].region THEN << >>
        ELSE << df[k].region >>) \o unique(df, k + 1)

\* gdf.query(f'region=="{region}"'): the index labels of the rows kept
query_region(df, region) == { i \in DOMAIN df : df[i].region = region }

\* Series.max() of a column over the rows ix
column_max(df, ix, column) ==
  LET vals == { df[i][column] : i \in ix }
  IN CHOOSE v \in vals : \A w \in vals : ~RatLT(v, w)

GrsInit ==
  /\ pc = "grs"
  /\ raised = ""
  /\ grs_gdf \in [1..NGrsRows -> GrsRows]
  /\ grs_regions = Unset
  /\ region_ix = Unset
  /\ out_parquet = Unset
  /\ OutsideGrsUnset

\* lines 13-14
ReadPortalFile ==
  /\ pc = "grs"
  /\ grs_regions' = unique(grs_gdf, 1)
  /\ region_ix' = 1
  /\ pc' = "grs_loop"
  /\ UNCHANGED << raised, outside_grs, grs_gdf, out_parquet >>

\* lines 15-28: one pass of the loop over regions; to_parquet replaces the
\* file at out_path
NormalizeRegion ==
  /\ pc = "grs_loop"
  /\ region_ix <= Len(grs_regions)
  /\ LET ix == query_region(grs_gdf, grs_regions[region_ix])
         max_breach_hazard == column_max(grs_gdf, ix, "breach_hazard")
         max_spill_hazard == column_max(grs_gdf, ix, "breach_hazard")
         max_spill_risk == column_max(grs_gdf, ix, "breach_hazard")
     IN out_parquet' =
          [i \in ix |->
             [region |-> grs_gdf[i].region,
              breach_hazard |-> np_divide(grs_gdf[i].breach_hazard, max_breach_hazard),
              spill_hazard |-> np_divide(grs_gdf[i].spill_hazard, max_spill_hazard),
              spill_risk |-> np_divide(grs_gdf[i].spill_risk, max_spill_risk)]]
  /\ region_ix' = region_ix + 1
  /\ UNCHANGED << pc, raised, outside_grs, grs_gdf, grs_regions >>

\* the loop is over: normalize_by_grs returns
FinishGrs ==
  /\ pc = "grs_loop"
  /\ region_ix > Len(grs_regions)
  /\ pc' = "grs_done"
  /\ UNCHANGED << raised, outside_grs, grs_vars >>

GrsNext == ReadPortalFile \/ NormalizeRegion \/ FinishGrs

GrsSpec == GrsInit /\ [][GrsNext]_vars

\* the rows of the portal file that lie in the region of row i
RegionRows(i) == { j \in DOMAIN grs_gdf : grs_gdf[j].region = grs_gdf[i].region }

\* the largest value of a column among the rows S of the portal file
RegionalMax(S, column) ==
  LET vals == { grs_gdf[j][column] : j \in S }
  IN CHOOSE v \in vals : \A w \in vals : MeanLE(w, v)

\* C30: once a portal file is processed, the file written for it has a row
\* for every row of the portal file, and in every region each of
\* breach_hazard, spill_hazard and spill_risk whose regional maximum is
\* positive is the portal file's value divided by the regional maximum of
\* that same column.
EachMetricByOwnMaximum ==
  pc = "grs_done" =>
    /\ DOMAIN out_parquet = DOMAIN grs_gdf
    /\ \A i \in DOMAIN out_parquet :
         \A column \in { "breach_hazard", "spill_hazard", "spill_risk" } :
           LET max == RegionalMax(RegionRows(i), column)
           IN RatLT(Zero, max)
                => out_parquet[i][column] = RatDiv(grs_gdf[i][column], max)

====
